---------------------------- MODULE Spec2Model ----------------------------
(***************************************************************************)
(* Gesture classification and temporal interaction state machine of the   *)
(* SolarHand GestureController (src/unnamed/part_000), with the part of    *)
(* the SolarSystem scene (src/js/SolarSystem.js) the controller drives.    *)
(*                                                                         *)
(* Units.  Landmark coordinates are integers in 1/1000 of the normalised   *)
(* image unit (0.08 is 80).  Times are milliseconds.  Camera radii are in  *)
(* 1/100 of a scene unit (80 is 8000).                                     *)
(*                                                                         *)
(* Time.  An operation is one synchronous call: the clock does not advance *)
(* inside it, so every Date.now() of one call reads the same value.        *)
(***************************************************************************)
EXTENDS Integers, Sequences, FiniteSets, TLC

\* JavaScript null, for gesture labels and planet names.
Null == "null"

(***************************************************************************)
(* Bounds of the model.                                                    *)
(***************************************************************************)
\* Date.now() at construction of the controller.
StartTime == 1000
\* Frames are processed until this much time has passed since construction:
\* in a session of every operation, of fist holds, and of dwelling.
MaxTime == 200
MaxTimeFollow == 750
MaxTimeDwell == 3100
\* and in a session of palm holds, of camera gestures, and of selections.
MaxTimeReset == 1250
MaxTimeCamera == 400
MaxTimePersist == 3300
\* and in a session of fist holds at a low frame rate.
MaxTimeSparse == 1000
MaxTimeLoss == 2750
MaxTimePinch == 500
MaxTimeTracker == 500
\* on is called from outside while an event has fewer subscribers than this.
MaxSubscribers == 2

(***************************************************************************)
(* Constants of the program.                                               *)
(***************************************************************************)
LANDMARKS ==
    [WRIST |-> 0, THUMB_CMC |-> 1, THUMB_MCP |-> 2, THUMB_IP |-> 3, THUMB_TIP |-> 4,
     INDEX_MCP |-> 5, INDEX_PIP |-> 6, INDEX_DIP |-> 7, INDEX_TIP |-> 8,
     MIDDLE_MCP |-> 9, MIDDLE_PIP |-> 10, MIDDLE_DIP |-> 11, MIDDLE_TIP |-> 12,
     RING_MCP |-> 13, RING_PIP |-> 14, RING_DIP |-> 15, RING_TIP |-> 16,
     PINKY_MCP |-> 17, PINKY_PIP |-> 18, PINKY_DIP |-> 19, PINKY_TIP |-> 20]

\* this.PINCH_THRESHOLD = 0.08
PINCH_THRESHOLD == 80
\* tipY < pipY - 0.02
EXTEND_MARGIN == 20
\* tipToIp > 0.03
THUMB_MIN_LENGTH == 30
\* this.rotationSensitivity = 3
rotationSensitivity == 3
\* this.zoomSensitivity = 100
zoomSensitivity == 100
\* this.hoverDuration > 1500
DWELL_MS == 1500
\* this.gestureDuration > 500 && this.gestureDuration < 700
FIST_WINDOW_LO == 500
FIST_WINDOW_HI == 700
\* this.gestureDuration > 1000 && this.gestureDuration < 1200
PALM_WINDOW_LO == 1000
PALM_WINDOW_HI == 1200
\* cameraOrbit.radius: 80, targetRadius: 80; stopFollowing and resetView
DEFAULT_RADIUS == 8000
\* Math.max(20, Math.min(200, ...))
MIN_RADIUS == 2000
MAX_RADIUS == 20000

\* PLANET_DATA: size and distance of the bodies the model uses, in 1/100.
PLANET_DATA ==
    [sun   |-> [size |-> 500, distance |-> 0],
     earth |-> [size |-> 100, distance |-> 1800],
     mars  |-> [size |-> 50,  distance |-> 2400]]

\* The keys of this.planets (createPlanets puts every key of PLANET_DATA).
Planets == DOMAIN PLANET_DATA

(***************************************************************************)
(* Geometry utilities.                                                     *)
(***************************************************************************)
RECURSIVE SqrtIter(_, _)
SqrtIter(n, r) ==
    LET next == (r + n \div r) \div 2
    IN  IF next >= r THEN r ELSE SqrtIter(n, next)

\* Math.sqrt on the integer grid: the integer square root, which is exact on
\* the perfect squares the landmark frames below produce.
Sqrt(n) == IF n = 0 THEN 0 ELSE SqrtIter(n, n)

\* (p.z || 0): a point without z counts as z = 0.
ZOf(p) == IF "z" \in DOMAIN p THEN p.z ELSE 0

distance(p1, p2) ==
    LET dx == p1.x - p2.x
        dy == p1.y - p2.y
        dz == ZOf(p1) - ZOf(p2)
    IN  Sqrt(dx * dx + dy * dy + dz * dz)

\* The palm sums of the frames below are multiples of 3, so /3 is exact.
getPalmCenter(landmarks) ==
    LET wrist    == landmarks[LANDMARKS.WRIST]
        indexMcp == landmarks[LANDMARKS.INDEX_MCP]
        pinkyMcp == landmarks[LANDMARKS.PINKY_MCP]
    IN  [x |-> (wrist.x + indexMcp.x + pinkyMcp.x) \div 3,
         y |-> (wrist.y + indexMcp.y + pinkyMcp.y) \div 3]

\* tipToIp / ipToMcp > 0.5 in IEEE arithmetic: a positive number over 0 is
\* Infinity, which is > 0.5; otherwise the ratio test is 2 * tipToIp > ipToMcp.
isThumbExtended(landmarks) ==
    LET thumbTip == landmarks[LANDMARKS.THUMB_TIP]
        thumbIp  == landmarks[LANDMARKS.THUMB_IP]
        thumbMcp == landmarks[LANDMARKS.THUMB_MCP]
        tipToIp  == distance(thumbTip, thumbIp)
        ipToMcp  == distance(thumbIp, thumbMcp)
    IN  /\ tipToIp > THUMB_MIN_LENGTH
        /\ 2 * tipToIp > ipToMcp

fingerMap ==
    [index  |-> [tip |-> LANDMARKS.INDEX_TIP,  pip |-> LANDMARKS.INDEX_PIP,  mcp |-> LANDMARKS.INDEX_MCP],
     middle |-> [tip |-> LANDMARKS.MIDDLE_TIP, pip |-> LANDMARKS.MIDDLE_PIP, mcp |-> LANDMARKS.MIDDLE_MCP],
     ring   |-> [tip |-> LANDMARKS.RING_TIP,   pip |-> LANDMARKS.RING_PIP,   mcp |-> LANDMARKS.RING_MCP],
     pinky  |-> [tip |-> LANDMARKS.PINKY_TIP,  pip |-> LANDMARKS.PINKY_PIP,  mcp |-> LANDMARKS.PINKY_MCP]]

isFingerExtended(landmarks, finger) ==
    LET indices == fingerMap[finger]
        tipY    == landmarks[indices.tip].y
        pipY    == landmarks[indices.pip].y
    IN  tipY < pipY - EXTEND_MARGIN


(***************************************************************************)
(* The world an operation runs in: the controller object (gc), the scene   *)
(* object it holds (ss), the events emitted (out), the subscribers at the  *)
(* start of each emission (subs), the callbacks called (log) and the scene *)
(* methods called (cmds) by the operation so far, and what the environment *)
(* gives the operation: the value of Date.now() (now) and the object the   *)
(* scene's raycast finds under the fingertip (hit).  The operators below   *)
(* are the methods, as functions from the world before to the world after. *)
(***************************************************************************)
Call(w, fn, args) == [w EXCEPT !.cmds = Append(@, [fn |-> fn, args |-> args])]

Clamp(lo, hi, v) == IF v < lo THEN lo ELSE IF v > hi THEN hi ELSE v

(***************************************************************************)
(* SolarSystem: camera controls, highlight and selection.                  *)
(***************************************************************************)
\* targetTheta and targetPhi are not represented: the call and its
\* arguments are recorded.
adjustRotation(w, deltaTheta, deltaPhi) ==
    Call(w, "adjustRotation", <<deltaTheta, deltaPhi>>)

adjustZoom(w, delta) ==
    LET w1 == Call(w, "adjustZoom", <<delta>>)
    IN  [w1 EXCEPT !.ss.cameraOrbit.targetRadius =
                       Clamp(MIN_RADIUS, MAX_RADIUS, @ + delta)]

followPlanet(w, planetName) ==
    LET w1 == Call(w, "followPlanet", <<planetName>>)
    IN  IF planetName \in Planets
        THEN [w1 EXCEPT !.ss.followingPlanet = planetName,
                        !.ss.cameraOrbit.targetRadius = PLANET_DATA[planetName].size * 8]
        ELSE w1

stopFollowing(w) ==
    LET w1 == Call(w, "stopFollowing", <<>>)
    IN  [w1 EXCEPT !.ss.followingPlanet = Null,
                   !.ss.cameraOrbit.targetRadius = DEFAULT_RADIUS]

resetView(w) ==
    LET w1 == Call(w, "resetView", <<>>)
    IN  [w1 EXCEPT !.ss.cameraOrbit.targetRadius = DEFAULT_RADIUS,
                   !.ss.followingPlanet = Null]

focusOnPlanet(w, planetName) ==
    LET w1 == Call(w, "focusOnPlanet", <<planetName>>)
    IN  IF planetName \in Planets
        THEN [w1 EXCEPT !.ss.cameraOrbit.targetRadius =
                            PLANET_DATA[planetName].distance + PLANET_DATA[planetName].size * 5]
        ELSE w1

\* highlightPlanet and selectPlanet set mesh scales and the scene's own
\* hoveredPlanet and selectedPlanet, which only rendering reads: the calls
\* and their arguments are recorded.
highlightPlanet(w, planetName) == Call(w, "highlightPlanet", <<planetName>>)

selectPlanet(w, planetName) ==
    Call(Call(w, "selectPlanet", <<planetName>>), "highlightPlanet", <<planetName>>)

\* The raycast is the environment's: its result is the world's hit.
getPlanetAtScreenPosition(w) == w.hit

(***************************************************************************)
(* GestureController: event system.                                        *)
(***************************************************************************)
EventNames == {"gesture", "planetSelected", "planetFollowing", "cameraReset"}

\* The callbacks given to on and off, and what each does when it is called
\* with an event: "log1" and "late" return at once, "adder" subscribes
\* "late" to the event, "once" unsubscribes itself from it.
Callbacks ==
    [log1  |-> [does |-> "return", with |-> Null],
     late  |-> [does |-> "return", with |-> Null],
     adder |-> [does |-> "on",     with |-> "late"],
     once  |-> [does |-> "off",    with |-> "once"]]

\* The callbacks object after the constructor.
NoCallbacks == [e \in EventNames |-> <<>>]

\* if (this.callbacks[event]) this.callbacks[event].push(callback)
on(w, event, callback) ==
    IF event \in EventNames
    THEN [w EXCEPT !.gc.callbacks[event] = Append(@, callback)]
    ELSE w

\* Array.prototype.indexOf: the first index holding callback, 0 for -1.
indexOf(array, callback) ==
    IF \E i \in 1..Len(array) : array[i] = callback
    THEN CHOOSE i \in 1..Len(array) :
             /\ array[i] = callback
             /\ \A j \in 1..(i - 1) : array[j] # callback
    ELSE 0

\* Array.prototype.splice(index, 1)
splice(array, index) ==
    [i \in 1..(Len(array) - 1) |-> IF i < index THEN array[i] ELSE array[i + 1]]

off(w, event, callback) ==
    IF event \in EventNames
    THEN LET index == indexOf(w.gc.callbacks[event], callback)
         IN  IF index > 0
             THEN [w EXCEPT !.gc.callbacks[event] = splice(@, index)]
             ELSE w
    ELSE w

\* callback(data): the call is recorded with the number of the emission it
\* belongs to, and the callback does what Callbacks says.
invoke(w, callback, event, data) ==
    LET w1 == [w EXCEPT !.log = Append(@, [callback |-> callback, event |-> event,
                                           data |-> data, emission |-> Len(w.out)])]
        c  == Callbacks[callback]
    IN  CASE c.does = "on"  -> on(w1, event, c.with)
          [] c.does = "off" -> off(w1, event, c.with)
          [] OTHER          -> w1

\* Array.prototype.forEach from index k: the length len is read once, before
\* the first call; an index the array no longer holds is passed over; the
\* element is read from the array as it is when its turn comes.
RECURSIVE forEach(_, _, _, _, _)
forEach(w, event, data, k, len) ==
    IF k > len THEN w
    ELSE IF k > Len(w.gc.callbacks[event]) THEN forEach(w, event, data, k + 1, len)
    ELSE forEach(invoke(w, w.gc.callbacks[event][k], event, data), event, data, k + 1, len)

\* if (this.callbacks[event]) this.callbacks[event].forEach(...): an event of
\* a known name is delivered, any other is dropped.  The emission and the
\* subscribers at its start are recorded (out, subs).
emit(w, event, data) ==
    IF event \in EventNames
    THEN forEach([w EXCEPT !.out = Append(@, [event |-> event, data |-> data]),
                          !.subs = Append(@, w.gc.callbacks[event])],
                 event, data, 1, Len(w.gc.callbacks[event]))
    ELSE w

(***************************************************************************)
(* GestureController: classifier.                                          *)
(***************************************************************************)
\* Mutants of gestureLabel: the fist test placed before the pinch test; the
\* pinch test taking a distance equal to the threshold; the point test asking
\* for a closed thumb; the palm test not looking at the thumb.
gestureLabel_FistFirst(pinchDistance, thumbExtended, indexExtended, middleExtended, ringExtended, pinkyExtended) ==
    IF ~thumbExtended /\ ~indexExtended /\ ~middleExtended
       /\ ~ringExtended /\ ~pinkyExtended THEN "fist"
    ELSE IF pinchDistance < PINCH_THRESHOLD THEN "pinch"
    ELSE IF indexExtended /\ ~middleExtended /\ ~ringExtended /\ ~pinkyExtended
         THEN "point"
    ELSE IF thumbExtended /\ indexExtended /\ middleExtended
            /\ ringExtended /\ pinkyExtended THEN "palm"
    ELSE "rotate"

gestureLabel_PinchInclusive(pinchDistance, thumbExtended, indexExtended, middleExtended, ringExtended, pinkyExtended) ==
    IF pinchDistance <= PINCH_THRESHOLD THEN "pinch"
    ELSE IF ~thumbExtended /\ ~indexExtended /\ ~middleExtended
            /\ ~ringExtended /\ ~pinkyExtended THEN "fist"
    ELSE IF indexExtended /\ ~middleExtended /\ ~ringExtended /\ ~pinkyExtended
         THEN "point"
    ELSE IF thumbExtended /\ indexExtended /\ middleExtended
            /\ ringExtended /\ pinkyExtended THEN "palm"
    ELSE "rotate"

gestureLabel_PointThumbClosed(pinchDistance, thumbExtended, indexExtended, middleExtended, ringExtended, pinkyExtended) ==
    IF pinchDistance < PINCH_THRESHOLD THEN "pinch"
    ELSE IF ~thumbExtended /\ ~indexExtended /\ ~middleExtended
            /\ ~ringExtended /\ ~pinkyExtended THEN "fist"
    ELSE IF ~thumbExtended /\ indexExtended /\ ~middleExtended
            /\ ~ringExtended /\ ~pinkyExtended THEN "point"
    ELSE IF thumbExtended /\ indexExtended /\ middleExtended
            /\ ringExtended /\ pinkyExtended THEN "palm"
    ELSE "rotate"

gestureLabel_PalmNoThumb(pinchDistance, thumbExtended, indexExtended, middleExtended, ringExtended, pinkyExtended) ==
    IF pinchDistance < PINCH_THRESHOLD THEN "pinch"
    ELSE IF ~thumbExtended /\ ~indexExtended /\ ~middleExtended
            /\ ~ringExtended /\ ~pinkyExtended THEN "fist"
    ELSE IF indexExtended /\ ~middleExtended /\ ~ringExtended /\ ~pinkyExtended
         THEN "point"
    ELSE IF indexExtended /\ middleExtended /\ ringExtended /\ pinkyExtended
         THEN "palm"
    ELSE "rotate"

\* Mutant of gestureLabel: no label for a hand that matches no named pose.
gestureLabel_NoCatchAll(pinchDistance, thumbExtended, indexExtended, middleExtended, ringExtended, pinkyExtended) ==
    IF pinchDistance < PINCH_THRESHOLD THEN "pinch"
    ELSE IF ~thumbExtended /\ ~indexExtended /\ ~middleExtended
            /\ ~ringExtended /\ ~pinkyExtended THEN "fist"
    ELSE IF indexExtended /\ ~middleExtended /\ ~ringExtended /\ ~pinkyExtended
         THEN "point"
    ELSE IF thumbExtended /\ indexExtended /\ middleExtended
            /\ ringExtended /\ pinkyExtended THEN "palm"
    ELSE Null

\* The label detectGesture returns, from the pinch distance and the five
\* finger states: its chain of if statements, in order.
gestureLabel(pinchDistance, thumbExtended, indexExtended, middleExtended, ringExtended, pinkyExtended) ==
    IF pinchDistance < PINCH_THRESHOLD THEN "pinch"
    ELSE IF ~thumbExtended /\ ~indexExtended /\ ~middleExtended
            /\ ~ringExtended /\ ~pinkyExtended THEN "fist"
    ELSE IF indexExtended /\ ~middleExtended /\ ~ringExtended /\ ~pinkyExtended
         THEN "point"
    ELSE IF thumbExtended /\ indexExtended /\ middleExtended
            /\ ringExtended /\ pinkyExtended THEN "palm"
    ELSE "rotate"

\* Mutant of pinchUpdate: during a pinch the previous distance stays the one
\* the pinch started from.
pinchUpdate_FromPinchStart(w, landmarks) ==
    LET thumbTip == landmarks[LANDMARKS.THUMB_TIP]
        indexTip == landmarks[LANDMARKS.INDEX_TIP]
        w1 == [w EXCEPT !.gc.previousPinchDistance =
                            IF w.gc.isPinching THEN @ ELSE w.gc.pinchDistance,
                        !.gc.pinchDistance = distance(thumbTip, indexTip)]
    IN  IF w1.gc.pinchDistance < PINCH_THRESHOLD
        THEN IF ~w1.gc.isPinching
             THEN [w1 EXCEPT !.gc.isPinching = TRUE,
                             !.gc.basePinchDistance = w1.ss.cameraOrbit.radius]
             ELSE w1
        ELSE [w1 EXCEPT !.gc.isPinching = FALSE]

\* Mutant of pinchUpdate: the distance history moves on pinch frames only.
pinchUpdate_PinchFramesOnly(w, landmarks) ==
    LET thumbTip == landmarks[LANDMARKS.THUMB_TIP]
        indexTip == landmarks[LANDMARKS.INDEX_TIP]
        d  == distance(thumbTip, indexTip)
    IN  IF d < PINCH_THRESHOLD
        THEN LET w1 == [w EXCEPT !.gc.previousPinchDistance = w.gc.pinchDistance,
                                 !.gc.pinchDistance = d]
             IN  IF ~w1.gc.isPinching
                 THEN [w1 EXCEPT !.gc.isPinching = TRUE,
                                 !.gc.basePinchDistance = w1.ss.cameraOrbit.radius]
                 ELSE w1
        ELSE [w EXCEPT !.gc.isPinching = FALSE]

\* Mutant of pinchUpdate: every pinch frame takes the base distance anew.
pinchUpdate_BaseEveryFrame(w, landmarks) ==
    LET thumbTip == landmarks[LANDMARKS.THUMB_TIP]
        indexTip == landmarks[LANDMARKS.INDEX_TIP]
        w1 == [w EXCEPT !.gc.previousPinchDistance = w.gc.pinchDistance,
                        !.gc.pinchDistance = distance(thumbTip, indexTip)]
    IN  IF w1.gc.pinchDistance < PINCH_THRESHOLD
        THEN [w1 EXCEPT !.gc.isPinching = TRUE,
                        !.gc.basePinchDistance = w1.ss.cameraOrbit.radius]
        ELSE [w1 EXCEPT !.gc.isPinching = FALSE]

\* The pinch state detectGesture leaves behind.
pinchUpdate(w, landmarks) ==
    LET thumbTip == landmarks[LANDMARKS.THUMB_TIP]
        indexTip == landmarks[LANDMARKS.INDEX_TIP]
        w1 == [w EXCEPT !.gc.previousPinchDistance = w.gc.pinchDistance,
                        !.gc.pinchDistance = distance(thumbTip, indexTip)]
    IN  IF w1.gc.pinchDistance < PINCH_THRESHOLD
        THEN IF ~w1.gc.isPinching
             THEN [w1 EXCEPT !.gc.isPinching = TRUE,
                             !.gc.basePinchDistance = w1.ss.cameraOrbit.radius]
             ELSE w1
        ELSE [w1 EXCEPT !.gc.isPinching = FALSE]

\* detectGesture: the world it leaves (w) and the label it returns (gesture).
detectGesture(w, landmarks) ==
    LET w1 == pinchUpdate(w, landmarks)
    IN  [w |-> w1,
         gesture |-> gestureLabel(w1.gc.pinchDistance,
                                  isThumbExtended(landmarks),
                                  isFingerExtended(landmarks, "index"),
                                  isFingerExtended(landmarks, "middle"),
                                  isFingerExtended(landmarks, "ring"),
                                  isFingerExtended(landmarks, "pinky"))]

(***************************************************************************)
(* GestureController: gesture handlers.                                    *)
(***************************************************************************)
\* Mutant of handleRotation: deltaTheta is not negated.
handleRotation_NotInverted(w) ==
    LET deltaTheta == w.gc.handVelocity.x * rotationSensitivity
        deltaPhi   == w.gc.handVelocity.y * rotationSensitivity
    IN  adjustRotation(w, deltaTheta, deltaPhi)

handleRotation(w) ==
    LET deltaTheta == w.gc.handVelocity.x * rotationSensitivity
        deltaPhi   == w.gc.handVelocity.y * rotationSensitivity
    IN  adjustRotation(w, -deltaTheta, deltaPhi)

\* Distances are in 1/1000 and radii in 1/100, hence the division by 10.
handlePinch(w, landmarks) ==
    LET thumbTip == landmarks[LANDMARKS.THUMB_TIP]
        indexTip == landmarks[LANDMARKS.INDEX_TIP]
        currentDistance == distance(thumbTip, indexTip)
        deltaDistance == currentDistance - w.gc.previousPinchDistance
    IN  adjustZoom(w, (-deltaDistance * zoomSensitivity) \div 10)

\* Mutant of handlePoint: the dwell commits at 1500 ms, not after it.
handlePoint_DwellInclusive(w, landmarks) ==
    LET planet == getPlanetAtScreenPosition(w)
    IN  IF planet # Null
        THEN LET w1 == IF w.gc.hoveredPlanet # planet
                       THEN highlightPlanet(
                                [w EXCEPT !.gc.hoveredPlanet = planet,
                                          !.gc.hoverStartTime = w.now],
                                planet)
                       ELSE w
                 w2 == [w1 EXCEPT !.gc.hoverDuration = w.now - w1.gc.hoverStartTime]
             IN  IF w2.gc.hoverDuration >= DWELL_MS /\ w2.gc.selectedPlanet # planet
                 THEN emit(focusOnPlanet(selectPlanet(
                               [w2 EXCEPT !.gc.selectedPlanet = planet], planet), planet),
                           "planetSelected", planet)
                 ELSE w2
        ELSE IF w.gc.hoveredPlanet # Null
             THEN [highlightPlanet(w, Null) EXCEPT !.gc.hoveredPlanet = Null]
             ELSE w

\* Mutant of handlePoint: pointing at nothing drops the selection.
handlePoint_NoHitDeselects(w, landmarks) ==
    LET planet == getPlanetAtScreenPosition(w)
    IN  IF planet # Null
        THEN LET w1 == IF w.gc.hoveredPlanet # planet
                       THEN highlightPlanet(
                                [w EXCEPT !.gc.hoveredPlanet = planet,
                                          !.gc.hoverStartTime = w.now],
                                planet)
                       ELSE w
                 w2 == [w1 EXCEPT !.gc.hoverDuration = w.now - w1.gc.hoverStartTime]
             IN  IF w2.gc.hoverDuration > DWELL_MS /\ w2.gc.selectedPlanet # planet
                 THEN emit(focusOnPlanet(selectPlanet(
                               [w2 EXCEPT !.gc.selectedPlanet = planet], planet), planet),
                           "planetSelected", planet)
                 ELSE w2
        ELSE IF w.gc.hoveredPlanet # Null
             THEN [highlightPlanet(w, Null) EXCEPT !.gc.hoveredPlanet = Null,
                                                   !.gc.selectedPlanet = Null]
             ELSE w

\* Mutant of handlePoint: a hover that moves to another target keeps its start.
handlePoint_KeepsHoverStart(w, landmarks) ==
    LET planet == getPlanetAtScreenPosition(w)
    IN  IF planet # Null
        THEN LET w1 == IF w.gc.hoveredPlanet # planet
                       THEN highlightPlanet(
                                [w EXCEPT !.gc.hoveredPlanet = planet,
                                          !.gc.hoverStartTime =
                                              IF w.gc.hoveredPlanet = Null
                                              THEN w.now ELSE w.gc.hoverStartTime],
                                planet)
                       ELSE w
                 w2 == [w1 EXCEPT !.gc.hoverDuration = w.now - w1.gc.hoverStartTime]
             IN  IF w2.gc.hoverDuration > DWELL_MS /\ w2.gc.selectedPlanet # planet
                 THEN emit(focusOnPlanet(selectPlanet(
                               [w2 EXCEPT !.gc.selectedPlanet = planet], planet), planet),
                           "planetSelected", planet)
                 ELSE w2
        ELSE IF w.gc.hoveredPlanet # Null
             THEN [highlightPlanet(w, Null) EXCEPT !.gc.hoveredPlanet = Null]
             ELSE w

\* The point handler: hover tracking and the dwell commit.
handlePoint(w, landmarks) ==
    LET planet == getPlanetAtScreenPosition(w)
    IN  IF planet # Null
        THEN LET w1 == IF w.gc.hoveredPlanet # planet
                       THEN highlightPlanet(
                                [w EXCEPT !.gc.hoveredPlanet = planet,
                                          !.gc.hoverStartTime = w.now],
                                planet)
                       ELSE w
                 w2 == [w1 EXCEPT !.gc.hoverDuration = w.now - w1.gc.hoverStartTime]
             IN  IF w2.gc.hoverDuration > DWELL_MS /\ w2.gc.selectedPlanet # planet
                 THEN emit(focusOnPlanet(selectPlanet(
                               [w2 EXCEPT !.gc.selectedPlanet = planet], planet), planet),
                           "planetSelected", planet)
                 ELSE w2
        ELSE IF w.gc.hoveredPlanet # Null
             THEN [highlightPlanet(w, Null) EXCEPT !.gc.hoveredPlanet = Null]
             ELSE w

\* Mutant of handleFist: toggling follow off does not reach the scene.
handleFist_SceneKeepsFollowing(w) ==
    IF w.gc.gestureDuration > FIST_WINDOW_LO /\ w.gc.gestureDuration < FIST_WINDOW_HI
    THEN IF w.gc.selectedPlanet # Null
         THEN IF w.gc.followingPlanet = w.gc.selectedPlanet
              THEN emit([w EXCEPT !.gc.followingPlanet = Null],
                        "planetFollowing", Null)
              ELSE emit(followPlanet(
                            [w EXCEPT !.gc.followingPlanet = w.gc.selectedPlanet],
                            w.gc.selectedPlanet),
                        "planetFollowing", w.gc.selectedPlanet)
         ELSE w
    ELSE w

\* Mutant of handleFist: the window takes its lower bound.
handleFist_WindowInclusive(w) ==
    IF w.gc.gestureDuration >= FIST_WINDOW_LO /\ w.gc.gestureDuration < FIST_WINDOW_HI
    THEN IF w.gc.selectedPlanet # Null
         THEN IF w.gc.followingPlanet = w.gc.selectedPlanet
              THEN emit(stopFollowing([w EXCEPT !.gc.followingPlanet = Null]),
                        "planetFollowing", Null)
              ELSE emit(followPlanet(
                            [w EXCEPT !.gc.followingPlanet = w.gc.selectedPlanet],
                            w.gc.selectedPlanet),
                        "planetFollowing", w.gc.selectedPlanet)
         ELSE w
    ELSE w

handleFist(w) ==
    IF w.gc.gestureDuration > FIST_WINDOW_LO /\ w.gc.gestureDuration < FIST_WINDOW_HI
    THEN IF w.gc.selectedPlanet # Null
         THEN IF w.gc.followingPlanet = w.gc.selectedPlanet
              THEN emit(stopFollowing([w EXCEPT !.gc.followingPlanet = Null]),
                        "planetFollowing", Null)
              ELSE emit(followPlanet(
                            [w EXCEPT !.gc.followingPlanet = w.gc.selectedPlanet],
                            w.gc.selectedPlanet),
                        "planetFollowing", w.gc.selectedPlanet)
         ELSE w
    ELSE w

\* Mutant of handlePalm: the window takes its lower bound.
handlePalm_WindowInclusive(w) ==
    IF w.gc.gestureDuration >= PALM_WINDOW_LO /\ w.gc.gestureDuration < PALM_WINDOW_HI
    THEN LET w1 == resetView(w)
             w2 == [w1 EXCEPT !.gc.selectedPlanet = Null, !.gc.followingPlanet = Null]
         IN  emit(emit(w2, "cameraReset", Null), "planetFollowing", Null)
    ELSE w

handlePalm(w) ==
    IF w.gc.gestureDuration > PALM_WINDOW_LO /\ w.gc.gestureDuration < PALM_WINDOW_HI
    THEN LET w1 == resetView(w)
             w2 == [w1 EXCEPT !.gc.selectedPlanet = Null, !.gc.followingPlanet = Null]
         IN  emit(emit(w2, "cameraReset", Null), "planetFollowing", Null)
    ELSE w

\* Mutant of handleGesture: a pointing hand also turns the camera.
handleGesture_PointRotates(w, landmarks, gesture) ==
    CASE gesture = "rotate" -> handleRotation(w)
      [] gesture = "pinch"  -> handlePinch(w, landmarks)
      [] gesture = "point"  -> handleRotation(handlePoint(w, landmarks))
      [] gesture = "fist"   -> handleFist(w)
      [] gesture = "palm"   -> handlePalm(w)
      [] OTHER              -> w

handleGesture(w, landmarks, gesture) ==
    CASE gesture = "rotate" -> handleRotation(w)
      [] gesture = "pinch"  -> handlePinch(w, landmarks)
      [] gesture = "point"  -> handlePoint(w, landmarks)
      [] gesture = "fist"   -> handleFist(w)
      [] gesture = "palm"   -> handlePalm(w)
      [] OTHER              -> w

(***************************************************************************)
(* GestureController: entry points.                                        *)
(***************************************************************************)
\* processHand(null): no landmarks.
NoLandmarks == <<>>

\* Mutant of gestureChange: the event is emitted on every frame.
gestureChange_EveryFrame(w, gesture) ==
    LET w1 == IF gesture # w.gc.currentGesture
              THEN [w EXCEPT !.gc.previousGesture = w.gc.currentGesture,
                             !.gc.currentGesture = gesture,
                             !.gc.gestureStartTime = w.now]
              ELSE w
    IN  IF gesture # Null THEN emit(w1, "gesture", gesture) ELSE w1

\* Mutant of gestureChange: the start time of the gesture is not reset.
gestureChange_StartKept(w, gesture) ==
    IF gesture # w.gc.currentGesture
    THEN LET w1 == [w EXCEPT !.gc.previousGesture = w.gc.currentGesture,
                             !.gc.currentGesture = gesture]
         IN  IF gesture # Null THEN emit(w1, "gesture", gesture) ELSE w1
    ELSE w

\* "Handle gesture changes": the label against the current gesture.
gestureChange(w, gesture) ==
    IF gesture # w.gc.currentGesture
    THEN LET w1 == [w EXCEPT !.gc.previousGesture = w.gc.currentGesture,
                             !.gc.currentGesture = gesture,
                             !.gc.gestureStartTime = w.now]
         IN  IF gesture # Null THEN emit(w1, "gesture", gesture) ELSE w1
    ELSE w

\* Mutant of processHand: a null frame is taken as the loss of the hand.
processHand_NullLosesHand(w, landmarks) ==
    IF landmarks = NoLandmarks
    THEN [w EXCEPT !.gc.currentGesture = Null, !.gc.isPinching = FALSE]
    ELSE LET w1 == [w EXCEPT !.gc.previousHandPosition = w.gc.handPosition,
                             !.gc.handPosition = getPalmCenter(landmarks)]
             w2 == [w1 EXCEPT !.gc.handVelocity =
                        [x |-> w1.gc.handPosition.x - w1.gc.previousHandPosition.x,
                         y |-> w1.gc.handPosition.y - w1.gc.previousHandPosition.y]]
             d  == detectGesture(w2, landmarks)
             w3 == gestureChange(d.w, d.gesture)
             w4 == [w3 EXCEPT !.gc.gestureDuration = w.now - w3.gc.gestureStartTime]
         IN  handleGesture(w4, landmarks, d.gesture)

processHand(w, landmarks) ==
    IF landmarks = NoLandmarks THEN w
    ELSE LET w1 == [w EXCEPT !.gc.previousHandPosition = w.gc.handPosition,
                             !.gc.handPosition = getPalmCenter(landmarks)]
             w2 == [w1 EXCEPT !.gc.handVelocity =
                        [x |-> w1.gc.handPosition.x - w1.gc.previousHandPosition.x,
                         y |-> w1.gc.handPosition.y - w1.gc.previousHandPosition.y]]
             d  == detectGesture(w2, landmarks)
             w3 == gestureChange(d.w, d.gesture)
             w4 == [w3 EXCEPT !.gc.gestureDuration = w.now - w3.gc.gestureStartTime]
         IN  handleGesture(w4, landmarks, d.gesture)

\* Mutant of onHandLost: the gesture in hand outlives the loss of the hand.
onHandLost_KeepsGesture(w) ==
    LET w1 == [w EXCEPT !.gc.isPinching = FALSE]
    IN  IF w1.gc.hoveredPlanet # Null
        THEN [highlightPlanet(w1, Null) EXCEPT !.gc.hoveredPlanet = Null]
        ELSE w1

\* Mutant of onHandLost: the pinch flag is left as it is.
onHandLost_KeepsPinch(w) ==
    LET w1 == [w EXCEPT !.gc.currentGesture = Null]
    IN  IF w1.gc.hoveredPlanet # Null
        THEN [highlightPlanet(w1, Null) EXCEPT !.gc.hoveredPlanet = Null]
        ELSE w1

\* Mutant of onHandLost: the transition to no gesture is announced.
onHandLost_EmitsGesture(w) ==
    LET w1 == [w EXCEPT !.gc.currentGesture = Null, !.gc.isPinching = FALSE]
        w2 == IF w1.gc.hoveredPlanet # Null
              THEN [highlightPlanet(w1, Null) EXCEPT !.gc.hoveredPlanet = Null]
              ELSE w1
    IN  emit(w2, "gesture", Null)

onHandLost(w) ==
    LET w1 == [w EXCEPT !.gc.currentGesture = Null, !.gc.isPinching = FALSE]
    IN  IF w1.gc.hoveredPlanet # Null
        THEN [highlightPlanet(w1, Null) EXCEPT !.gc.hoveredPlanet = Null]
        ELSE w1

\* SolarSystem.update: the camera radius moves a twentieth of the way to its
\* target (smoothing 0.05), here on the 1/100 grid and rounded down.  The
\* angles, the camera position and the orbits have no reader in the
\* controller.
sceneUpdate(w) ==
    LET o == w.ss.cameraOrbit
    IN  [w EXCEPT !.ss.cameraOrbit.radius = o.radius + ((o.targetRadius - o.radius) * 5) \div 100]

\* Mutant of update: a render tick drops the hover.
update_ClearsHover(w) ==
    IF w.gc.hoveredPlanet # Null
    THEN [highlightPlanet(w, Null) EXCEPT !.gc.hoveredPlanet = Null]
    ELSE w

update(w) == w

\* The render loop: the scene is updated, then the controller.
animate(w) == update(sceneUpdate(w))

manualRotate(w, deltaTheta, deltaPhi) == adjustRotation(w, deltaTheta, deltaPhi)

manualZoom(w, delta) == adjustZoom(w, delta)

manualSelectPlanet(w, planetName) ==
    emit(focusOnPlanet(selectPlanet(
             [w EXCEPT !.gc.selectedPlanet = planetName], planetName), planetName),
         "planetSelected", planetName)

manualFollowPlanet(w, planetName) ==
    emit(followPlanet([w EXCEPT !.gc.followingPlanet = planetName], planetName),
         "planetFollowing", planetName)

\* Mutant of manualReset: the selection is left in place.
manualReset_KeepsSelection(w) ==
    LET w1 == resetView(w)
        w2 == [w1 EXCEPT !.gc.followingPlanet = Null]
    IN  emit(emit(w2, "cameraReset", Null), "planetFollowing", Null)

manualReset(w) ==
    LET w1 == resetView(w)
        w2 == [w1 EXCEPT !.gc.selectedPlanet = Null, !.gc.followingPlanet = Null]
    IN  emit(emit(w2, "cameraReset", Null), "planetFollowing", Null)

(***************************************************************************)
(* Landmark frames.  A frame is a function from 0..20 to points.  Frame(p) *)
(* lays a hand out on the integer grid from a description p: which of the  *)
(* four fingers have their tip above the mid joint by more than the        *)
(* margin, the shape of the thumb, the offset of the thumb tip from the    *)
(* index tip, the horizontal shift of the hand, and whether the points     *)
(* carry a z coordinate.  All distances the code takes are exact.          *)
(***************************************************************************)
Fingers == {"index", "middle", "ring", "pinky"}

\* Tip-to-IP length and IP-to-MCP length of the thumb.
ThumbShapes ==
    [ext   |-> [tipToIp |-> 31, ipToMcp |-> 61],
     short |-> [tipToIp |-> 30, ipToMcp |-> 10],
     ratio |-> [tipToIp |-> 31, ipToMcp |-> 62],
     zero  |-> [tipToIp |-> 31, ipToMcp |-> 0]]

\* Offsets of the thumb tip from the index tip: distances 30, 50, 79, 80,
\* 200, and 80 again as 48 across and 64 in depth.
PinchOffsets ==
    {[dx |-> 30, dz |-> 0], [dx |-> 50, dz |-> 0], [dx |-> 79, dz |-> 0],
     [dx |-> 80, dz |-> 0], [dx |-> 200, dz |-> 0], [dx |-> 48, dz |-> 64]}

Pt(x, y, z, hasZ) == IF hasZ THEN [x |-> x, y |-> y, z |-> z] ELSE [x |-> x, y |-> y]

TipY(extended) == IF extended THEN 479 ELSE 480

Frame(p) ==
    LET s     == p.shift
        hz    == p.hasZ
        th    == ThumbShapes[p.thumb]
        ix    == 560 + s
        iy    == TipY(p.ext["index"])
        tx    == ix + p.pinch.dx
    IN  [i \in 0..20 |->
            CASE i = LANDMARKS.WRIST      -> Pt(500 + s, 800, 0, hz)
              [] i = LANDMARKS.THUMB_CMC  -> Pt(600 + s, 750, 0, hz)
              [] i = LANDMARKS.THUMB_MCP  -> Pt(tx, iy + th.tipToIp + th.ipToMcp, p.pinch.dz, hz)
              [] i = LANDMARKS.THUMB_IP   -> Pt(tx, iy + th.tipToIp, p.pinch.dz, hz)
              [] i = LANDMARKS.THUMB_TIP  -> Pt(tx, iy, p.pinch.dz, hz)
              [] i = LANDMARKS.INDEX_MCP  -> Pt(560 + s, 590, 0, hz)
              [] i = LANDMARKS.INDEX_PIP  -> Pt(560 + s, 500, 0, hz)
              [] i = LANDMARKS.INDEX_DIP  -> Pt(560 + s, 490, 0, hz)
              [] i = LANDMARKS.INDEX_TIP  -> Pt(ix, iy, 0, hz)
              [] i = LANDMARKS.MIDDLE_MCP -> Pt(520 + s, 590, 0, hz)
              [] i = LANDMARKS.MIDDLE_PIP -> Pt(520 + s, 500, 0, hz)
              [] i = LANDMARKS.MIDDLE_DIP -> Pt(520 + s, 490, 0, hz)
              [] i = LANDMARKS.MIDDLE_TIP -> Pt(520 + s, TipY(p.ext["middle"]), 0, hz)
              [] i = LANDMARKS.RING_MCP   -> Pt(480 + s, 590, 0, hz)
              [] i = LANDMARKS.RING_PIP   -> Pt(480 + s, 500, 0, hz)
              [] i = LANDMARKS.RING_DIP   -> Pt(480 + s, 490, 0, hz)
              [] i = LANDMARKS.RING_TIP   -> Pt(480 + s, TipY(p.ext["ring"]), 0, hz)
              [] i = LANDMARKS.PINKY_MCP  -> Pt(440 + s, 590, 0, hz)
              [] i = LANDMARKS.PINKY_PIP  -> Pt(440 + s, 500, 0, hz)
              [] i = LANDMARKS.PINKY_DIP  -> Pt(440 + s, 490, 0, hz)
              [] OTHER                    -> Pt(440 + s, TipY(p.ext["pinky"]), 0, hz)]

\* Every hand the classifier is checked on.
AllFrames ==
    { Frame(p) :
        p \in { q \in [ext : [Fingers -> BOOLEAN], thumb : DOMAIN ThumbShapes,
                       pinch : PinchOffsets, shift : {0}, hasZ : BOOLEAN] :
                 q.hasZ \/ q.pinch.dz = 0 } }

Hand(extended, thumb, dx, shift) ==
    Frame([ext |-> [f \in Fingers |-> f \in extended], thumb |-> thumb,
           pinch |-> [dx |-> dx, dz |-> 0], shift |-> shift, hasZ |-> TRUE])

FistHand   == Hand({}, "short", 200, 0)
PointHand  == Hand({"index"}, "short", 200, 0)
PalmHand   == Hand(Fingers, "ext", 200, 0)
RotateHand == Hand({"index", "middle"}, "short", 200, 0)
PinchHand  == Hand({}, "short", 50, 0)

\* The hands the controller is driven with: one of each label.
CoreFrames == {FistHand, PointHand, PalmHand, RotateHand, PinchHand}

\* A hand moved across the image by (dx, dy), every landmark alike.
Moved(lm, dx, dy) == [i \in 0..20 |-> [lm[i] EXCEPT !.x = @ + dx, !.y = @ + dy]]

\* The hands of a session of camera gestures: the rotate hand in place,
\* moved by +0.05 across, and moved by 0.03 up; pinches with the thumb tip
\* 0.079, 0.05 and 0.03 from the index tip; and a fist.
CameraFrames ==
    {RotateHand, Moved(RotateHand, 50, 0), Moved(RotateHand, 0, -30),
     Hand({}, "short", 79, 0), PinchHand, Hand({}, "short", 30, 0), FistHand}

\* The keys pressed and the buttons clicked.
Keys == {"Escape", "h", "s", "S", "r", "4", "5", "x"}
Buttons == {"btnHelp", "btnSettings", "btnReset", "closePlanetInfo"}

\* results.multiHandLandmarks of the detection results: no hand, or one
\* (maxNumHands is 1).
TrackerResults == {<<>>} \cup {<<lm>> : lm \in {FistHand, PinchHand, Moved(RotateHand, 50, 0)}}

\* Milliseconds between one processed frame and the next: in a session of
\* every operation, of fist holds, and of dwelling.
Steps == {100}
FollowSteps == {50, 500}
DwellSteps == {500}
\* and in a session of palm holds, and of selections.
ResetSteps == {50, 500}
PersistSteps == {550}
\* and at a low frame rate: 10 and 4 frames a second.
SparseSteps == {100, 250}

\* The events and the callbacks on and off are called with from outside.
BusEvents == {"cameraReset", "planetFollowing"}
BusCallbacks == {"log1", "adder", "once"}

\* What the raycast can find, and the names the manual entry points are given.
Bodies == {"earth", "mars"}

\* Arguments of manualZoom and manualRotate.
ZoomDeltas == {18000}
RotateDeltas == {<<10, 0>>}

(***************************************************************************)
(* State.                                                                  *)
(***************************************************************************)
(***************************************************************************)
(* HandTracker.                                                            *)
(***************************************************************************)
\* The fields after the constructor; null landmarks are the empty frame.
NewHandTracker ==
    [lastLandmarks |-> NoLandmarks, handDetected |-> FALSE,
     smoothedLandmarks |-> NoLandmarks]

\* a + (b - a) * t with t = smoothingFactor = 0.5, on the 1/1000 grid and
\* rounded down.
lerp(a, b) == a + (b - a) \div 2

\* The first landmarks after none are copied; later ones are blended into
\* the smoothed ones, coordinate by coordinate.  A z that either side lacks
\* blends to NaN, which distance reads as 0 (p.z || 0), as it reads a
\* missing z.
smoothLandmarks(h, landmarks) ==
    IF h.smoothedLandmarks = NoLandmarks
    THEN [h EXCEPT !.smoothedLandmarks = landmarks]
    ELSE [h EXCEPT !.smoothedLandmarks =
             [i \in DOMAIN landmarks |->
                 LET s == h.smoothedLandmarks[i]
                     l == landmarks[i]
                     x == lerp(s.x, l.x)
                     y == lerp(s.y, l.y)
                 IN  IF "z" \in DOMAIN s /\ "z" \in DOMAIN l
                     THEN [x |-> x, y |-> y, z |-> lerp(s.z, l.z)]
                     ELSE [x |-> x, y |-> y]]]

\* Mutant of onResults: every result without a hand signals the loss.
onResults_LostOnEveryMiss(h, multiHandLandmarks) ==
    IF Len(multiHandLandmarks) > 0
    THEN LET h1 == smoothLandmarks(h, multiHandLandmarks[1])
             h2 == [h1 EXCEPT !.handDetected = TRUE]
         IN  [ht  |-> [h2 EXCEPT !.lastLandmarks = h2.smoothedLandmarks],
              out |-> <<[event |-> "handDetected", data |-> h2.smoothedLandmarks]>>]
    ELSE [ht  |-> [h EXCEPT !.handDetected = FALSE, !.smoothedLandmarks = NoLandmarks],
          out |-> <<[event |-> "handLost", data |-> NoLandmarks]>>]

\* onResults, on results.multiHandLandmarks (an undefined one goes the way
\* of an empty one): the tracker after it and the events it emits.  The
\* drawing on the canvas has no reader.
onResults(h, multiHandLandmarks) ==
    IF Len(multiHandLandmarks) > 0
    THEN LET h1 == smoothLandmarks(h, multiHandLandmarks[1])
             h2 == [h1 EXCEPT !.handDetected = TRUE]
         IN  [ht  |-> [h2 EXCEPT !.lastLandmarks = h2.smoothedLandmarks],
              out |-> <<[event |-> "handDetected", data |-> h2.smoothedLandmarks]>>]
    ELSE IF h.handDetected
         THEN [ht  |-> [h EXCEPT !.handDetected = FALSE,
                                 !.smoothedLandmarks = NoLandmarks],
               out |-> <<[event |-> "handLost", data |-> NoLandmarks]>>]
         ELSE [ht |-> [h EXCEPT !.smoothedLandmarks = NoLandmarks], out |-> <<>>]

\* The listeners setupEventListeners puts on the tracker: handDetected goes
\* to processHand, handLost to onHandLost.
trackerListener(w, e) ==
    IF e.event = "handDetected" THEN processHand(w, e.data) ELSE onHandLost(w)

(***************************************************************************)
(* UIController: the panels.  A panel is its flag in isPanelOpen, the      *)
(* hidden class of its element and the active class of its button.         *)
(***************************************************************************)
NewUIController ==
    [isPanelOpen |-> [controls |-> FALSE, settings |-> FALSE, planetInfo |-> FALSE],
     hidden      |-> [controlsGuide |-> TRUE, settingsPanel |-> TRUE, planetInfo |-> TRUE],
     active      |-> [btnHelp |-> FALSE, btnSettings |-> FALSE]]

panelMap == [controls |-> "controlsGuide", settings |-> "settingsPanel"]

\* elements[`btn${Name}`] || elements.btnHelp: there is no btnControls.
panelButton == [controls |-> "btnHelp", settings |-> "btnSettings"]

closeAllPanels(u) ==
    [u EXCEPT !.hidden.controlsGuide = TRUE, !.hidden.settingsPanel = TRUE,
              !.active.btnHelp = FALSE, !.active.btnSettings = FALSE,
              !.isPanelOpen.controls = FALSE, !.isPanelOpen.settings = FALSE]

\* Mutant of togglePanel: a panel opens without the others being closed.
togglePanel_OthersStayOpen(u, panelName) ==
    LET u1 == IF u.isPanelOpen[panelName]
              THEN [u EXCEPT !.hidden[panelMap[panelName]] = TRUE,
                             !.active[panelButton[panelName]] = FALSE]
              ELSE [u EXCEPT !.hidden[panelMap[panelName]] = FALSE,
                             !.active[panelButton[panelName]] = TRUE]
    IN  [u1 EXCEPT !.isPanelOpen[panelName] = ~u1.isPanelOpen[panelName]]

togglePanel(u, panelName) ==
    LET u1 == IF u.isPanelOpen[panelName]
              THEN [u EXCEPT !.hidden[panelMap[panelName]] = TRUE,
                             !.active[panelButton[panelName]] = FALSE]
              ELSE [closeAllPanels(u) EXCEPT !.hidden[panelMap[panelName]] = FALSE,
                                             !.active[panelButton[panelName]] = TRUE]
    IN  [u1 EXCEPT !.isPanelOpen[panelName] = ~u1.isPanelOpen[panelName]]

\* The texts of the panel and the planet buttons have no reader here.
showPlanetInfo(u, planetName) ==
    IF planetName \notin DOMAIN PLANET_DATA THEN u
    ELSE [u EXCEPT !.hidden.planetInfo = FALSE, !.isPanelOpen.planetInfo = TRUE]

hidePlanetInfo(u) ==
    [u EXCEPT !.hidden.planetInfo = TRUE, !.isPanelOpen.planetInfo = FALSE]

\* UIController.resetView: the controller's manual reset, then the planet
\* panel is hidden.  The world and the panels after it.
uiResetView(w, u) == [w |-> manualReset(w), ui |-> hidePlanetInfo(u)]

\* The planets the digit keys 1..9 select.
planetNames ==
    <<"sun", "mercury", "venus", "earth", "mars", "jupiter", "saturn", "uranus", "neptune">>

Digit == [k \in {"1", "2", "3", "4", "5", "6", "7", "8", "9"} |->
             CASE k = "1" -> 1 [] k = "2" -> 2 [] k = "3" -> 3 [] k = "4" -> 4
               [] k = "5" -> 5 [] k = "6" -> 6 [] k = "7" -> 7 [] k = "8" -> 8
               [] k = "9" -> 9]

\* handleKeyboard(e), on e.key and e.ctrlKey.  The sound key has no reader
\* here.
handleKeyboard(w, u, key, ctrlKey) ==
    CASE key = "Escape" -> [w |-> w, ui |-> closeAllPanels(u)]
      [] key \in {"h", "H"} -> [w |-> w, ui |-> togglePanel(u, "controls")]
      [] key \in {"s", "S"} ->
             [w |-> w, ui |-> IF ~ctrlKey THEN togglePanel(u, "settings") ELSE u]
      [] key \in {"r", "R", " "} -> uiResetView(w, u)
      [] key \in DOMAIN Digit ->
             [w  |-> manualSelectPlanet(w, planetNames[Digit[key]]),
              ui |-> showPlanetInfo(u, planetNames[Digit[key]])]
      [] OTHER -> [w |-> w, ui |-> u]

\* The click listeners of the toolbar buttons.
click(w, u, button) ==
    CASE button = "btnHelp" -> [w |-> w, ui |-> togglePanel(u, "controls")]
      [] button = "btnSettings" -> [w |-> w, ui |-> togglePanel(u, "settings")]
      [] button = "btnReset" -> uiResetView(w, u)
      [] button = "closePlanetInfo" -> [w |-> w, ui |-> hidePlanetInfo(u)]

VARIABLES
    gc,           \* the GestureController's fields
    ss,           \* the SolarSystem's fields the controller reads and drives
    now,          \* Date.now() at the last operation
    landmarks,    \* the landmarks last handed to processHand
    op,           \* the last operation and its inputs
    emitted,      \* the events the last operation delivered, in order
    called,       \* the scene methods the last operation called, in order
    delivered,    \* the callbacks the last operation called, in order
    subscribedAt, \* the subscribers at the start of each of its emissions
    lastFrame,    \* history: the landmarks of the last frame processed
    pointRun,     \* history: the current run of point frames on one target
    everSelected, \* history: every id selectedPlanet has held
    fistHold,     \* history: the current run of consecutive fist frames
    palmHold,     \* history: the current run of consecutive palm frames
    dwell,        \* history: dwell selections since the hover target changed
    held,         \* history: the label held since the hand was last lost
    ht,           \* the HandTracker's fields
    tracker,      \* history: the detection results and what the tracker emitted
    ui            \* the UIController's panel flags and the panels' classes

vars ==
    <<gc, ss, now, landmarks, op, emitted, called, delivered, subscribedAt,
      lastFrame, pointRun, everSelected, fistHold, palmHold, dwell, held,
      ht, tracker, ui>>

\* The fields after the constructors.
NewGestureController ==
    [currentGesture |-> Null, previousGesture |-> Null,
     gestureStartTime |-> 0, gestureDuration |-> 0,
     handPosition |-> [x |-> 500, y |-> 500],
     previousHandPosition |-> [x |-> 500, y |-> 500],
     handVelocity |-> [x |-> 0, y |-> 0],
     pinchDistance |-> 0, previousPinchDistance |-> 0,
     basePinchDistance |-> 0, isPinching |-> FALSE,
     hoveredPlanet |-> Null, selectedPlanet |-> Null, followingPlanet |-> Null,
     hoverStartTime |-> 0, hoverDuration |-> 0,
     callbacks |-> NoCallbacks]

NewSolarSystem ==
    [cameraOrbit |-> [radius |-> DEFAULT_RADIUS, targetRadius |-> DEFAULT_RADIUS],
     followingPlanet |-> Null]

NoOp == [name |-> "new", gesture |-> Null, hit |-> Null, arg |-> Null]

NoHold ==
    [active |-> FALSE, fromStart |-> FALSE, resumed |-> FALSE, following0 |-> Null,
     inWindow |-> 0, events |-> 0]

NoPalmHold == [active |-> FALSE, inWindow |-> 0, events |-> 0, calls |-> 0]

NoDwell == [fired |-> Null, since |-> Null]

NoRun == [target |-> Null, start |-> 0]

NoHeld == [label |-> Null, start |-> 0]

NoResults == [n |-> 0, prev |-> "new", result |-> "new", out |-> <<>>]

World(t, hit) ==
    [gc |-> gc, ss |-> ss, out |-> <<>>, subs |-> <<>>, log |-> <<>>, cmds |-> <<>>,
     now |-> t, hit |-> hit]

EventsOf(out, event) == SelectSeq(out, LAMBDA e : e.event = event)

CallsOf(cmds, fn) == SelectSeq(cmds, LAMBDA c : c.fn = fn)

InitMachine(frames) ==
    /\ gc = NewGestureController
    /\ ss = NewSolarSystem
    /\ now = StartTime
    /\ landmarks \in frames
    /\ op = NoOp
    /\ emitted = <<>>
    /\ called = <<>>
    /\ delivered = <<>>
    /\ subscribedAt = <<>>
    /\ lastFrame = NoLandmarks
    /\ pointRun = NoRun
    /\ everSelected = {}
    /\ fistHold = NoHold
    /\ palmHold = NoPalmHold
    /\ dwell = NoDwell
    /\ held = NoHeld
    /\ ht = NewHandTracker
    /\ tracker = NoResults

\* The page with its panels hidden.
InitWith(frames) == InitMachine(frames) /\ ui = NewUIController

Init == InitWith({NoLandmarks})

\* The history after an operation that took the world from (gc, ...) to w.
\* A frame is part of a fist hold when its label is fist; the hold is new
\* when the gesture before the frame was not fist.  The record of a hold is
\* begun again after an entry point that changes selection or follow state;
\* fromStart tells that it runs from the first frame of the fist gesture, and
\* resumed that this frame is the first since the hand was lost and the last
\* frame before the loss was a fist too.
HoldAfter(w, isFrame, gesture) ==
    IF isFrame /\ gesture = "fist"
    THEN LET h == IF fistHold.active /\ gc.currentGesture = "fist"
                  THEN fistHold
                  ELSE [NoHold EXCEPT !.active = TRUE,
                                      !.fromStart = gc.currentGesture # "fist",
                                      !.resumed =
                                          /\ gc.currentGesture = Null
                                          /\ lastFrame # NoLandmarks
                                          /\ detectGesture(w, lastFrame).gesture = "fist",
                                      !.following0 = gc.followingPlanet]
             in == w.gc.gestureDuration > FIST_WINDOW_LO
                   /\ w.gc.gestureDuration < FIST_WINDOW_HI
         IN  [h EXCEPT !.inWindow = @ + (IF in THEN 1 ELSE 0),
                       !.events = @ + Len(EventsOf(w.out, "planetFollowing"))]
    ELSE NoHold

\* A frame is part of a palm hold when its label is palm; the hold is new
\* when the gesture before the frame was not palm.  The hold counts its
\* frames inside the reset window, its cameraReset events and its
\* reset-view calls.
PalmAfter(w, isFrame, gesture) ==
    IF isFrame /\ gesture = "palm"
    THEN LET h == IF palmHold.active /\ gc.currentGesture = "palm"
                  THEN palmHold
                  ELSE [NoPalmHold EXCEPT !.active = TRUE]
             in == w.gc.gestureDuration > PALM_WINDOW_LO
                   /\ w.gc.gestureDuration < PALM_WINDOW_HI
         IN  [h EXCEPT !.inWindow = @ + (IF in THEN 1 ELSE 0),
                       !.events = @ + Len(EventsOf(w.out, "cameraReset")),
                       !.calls = @ + Len(CallsOf(w.cmds, "resetView"))]
    ELSE NoPalmHold

DwellAfter(w, isFrame) ==
    LET sel   == EventsOf(w.out, "planetSelected")
        fired == IF isFrame /\ sel # <<>> THEN sel[1].data ELSE Null
        since == IF w.gc.hoveredPlanet # gc.hoveredPlanet THEN Null
                 ELSE IF dwell.fired # Null THEN dwell.fired ELSE dwell.since
    IN  [fired |-> fired, since |-> since]

\* A run of point frames on one target goes on while the frames processed
\* are point frames with that target under the fingertip; it ends with a
\* frame of another gesture or another target, and with the loss of the hand.
RunAfter(w, o, isFrame) ==
    IF isFrame
    THEN IF o.gesture = "point" /\ o.hit # Null
         THEN IF pointRun.target = o.hit THEN pointRun
              ELSE [target |-> o.hit, start |-> w.now]
         ELSE NoRun
    ELSE IF o.name = "onHandLost" THEN NoRun ELSE pointRun

\* The frames processed since the hand was last lost that end in a run of one
\* label: the label, and the time of the first frame of the run.
HeldAfter(w, o, isFrame) ==
    IF isFrame
    THEN IF held.label = o.gesture THEN held
         ELSE [label |-> o.gesture, start |-> w.now]
    ELSE IF o.name = "onHandLost" THEN NoHeld ELSE held

Settle(w, o, lm, isFrame, keepHold) ==
    /\ gc' = w.gc
    /\ ss' = w.ss
    /\ now' = w.now
    /\ landmarks' = lm
    /\ op' = o
    /\ emitted' = w.out
    /\ called' = w.cmds
    /\ delivered' = w.log
    /\ subscribedAt' = w.subs
    /\ lastFrame' = IF isFrame THEN lm ELSE lastFrame
    /\ pointRun' = RunAfter(w, o, isFrame)
    /\ everSelected' = everSelected \cup ({w.gc.selectedPlanet} \ {Null})
    /\ fistHold' = IF keepHold THEN fistHold ELSE HoldAfter(w, isFrame, o.gesture)
    /\ palmHold' = IF keepHold THEN palmHold ELSE PalmAfter(w, isFrame, o.gesture)
    /\ dwell' = DwellAfter(w, isFrame)
    /\ held' = HeldAfter(w, o, isFrame)

\* An operation on the controller: the tracker is not involved.
Finish(w, o, lm, isFrame, keepHold) ==
    /\ Settle(w, o, lm, isFrame, keepHold)
    /\ UNCHANGED <<ht, tracker, ui>>

(***************************************************************************)
(* Operations.                                                             *)
(***************************************************************************)
\* handDetected: a frame arrives dt after the last, and is processed.
Frame_processHand(lm, dt, hit) ==
    LET w0 == World(now + dt, hit)
        g  == detectGesture(w0, lm).gesture
        w  == processHand(w0, lm)
    IN  Finish(w, [name |-> "processHand", gesture |-> g,
                   hit |-> IF g = "point" THEN hit ELSE Null, arg |-> Null],
               lm, TRUE, FALSE)

\* A frame out of frames, with the raycast finding one of hits, before horizon.
ProcessHandOf(frames, hits, steps, horizon) ==
    \E lm \in frames, dt \in steps, hit \in hits :
        /\ now + dt <= StartTime + horizon
        /\ Frame_processHand(lm, dt, hit)

ProcessHand == ProcessHandOf(CoreFrames, Bodies \cup {Null}, Steps, MaxTime)

ProcessNull ==
    /\ op.name # "processNull"
    /\ Finish(processHand(World(now, Null), NoLandmarks),
              [NoOp EXCEPT !.name = "processNull"], NoLandmarks, FALSE, TRUE)

OnHandLost ==
    Finish(onHandLost(World(now, Null)), [NoOp EXCEPT !.name = "onHandLost"],
           landmarks, FALSE, FALSE)

Update ==
    /\ op.name # "update"
    /\ Finish(update(World(now, Null)), [NoOp EXCEPT !.name = "update"],
              landmarks, FALSE, TRUE)

\* The detection results of a camera frame arrive dt after the last
\* operation: the tracker smooths and emits, and its listeners drive the
\* controller.
OnResults ==
    \E r \in TrackerResults, dt \in Steps :
        /\ now + dt <= StartTime + MaxTimeTracker
        /\ LET t  == onResults(ht, r)
               w0 == World(now + dt, Null)
               e  == IF t.out = <<>> THEN [event |-> Null, data |-> NoLandmarks]
                     ELSE t.out[1]
               isFrame == e.event = "handDetected" /\ e.data # NoLandmarks
               w  == IF t.out = <<>> THEN w0 ELSE trackerListener(w0, e)
               o  == IF isFrame
                     THEN [NoOp EXCEPT !.name = "processHand",
                                       !.gesture = detectGesture(w0, e.data).gesture]
                     ELSE IF e.event = "handLost"
                     THEN [NoOp EXCEPT !.name = "onHandLost"]
                     ELSE [NoOp EXCEPT !.name = "onResults"]
           IN  /\ Settle(w, o, IF isFrame THEN e.data ELSE landmarks, isFrame,
                         t.out = <<>>)
               /\ ht' = t.ht
               /\ ui' = ui
               /\ tracker' = [n |-> tracker.n + 1, prev |-> tracker.result,
                              result |-> IF Len(r) > 0 THEN "hand" ELSE "none",
                              out |-> [k \in 1..Len(t.out) |-> t.out[k].event]]

\* A key goes down.
HandleKeyboard ==
    \E key \in Keys, ctrlKey \in BOOLEAN :
        LET r == handleKeyboard(World(now, Null), ui, key, ctrlKey)
        IN  /\ Settle(r.w, [NoOp EXCEPT !.name = "handleKeyboard", !.arg = <<key, ctrlKey>>],
                      landmarks, FALSE, r.w.cmds = <<>>)
            /\ ui' = r.ui
            /\ UNCHANGED <<ht, tracker>>

\* A toolbar button is clicked.
Click ==
    \E button \in Buttons :
        LET r == click(World(now, Null), ui, button)
        IN  /\ Settle(r.w, [NoOp EXCEPT !.name = "click", !.arg = button],
                      landmarks, FALSE, r.w.cmds = <<>>)
            /\ ui' = r.ui
            /\ UNCHANGED <<ht, tracker>>

\* requestAnimationFrame: a render tick, dt after the last operation.
Animate ==
    \E dt \in Steps :
        /\ now + dt <= StartTime + MaxTimePinch
        /\ Finish(animate(World(now + dt, Null)), [NoOp EXCEPT !.name = "animate"],
                  landmarks, FALSE, TRUE)

ManualRotate ==
    \E d \in RotateDeltas :
        Finish(manualRotate(World(now, Null), d[1], d[2]),
               [NoOp EXCEPT !.name = "manualRotate"], landmarks, FALSE, TRUE)

ManualZoom ==
    \E d \in ZoomDeltas :
        Finish(manualZoom(World(now, Null), d),
               [NoOp EXCEPT !.name = "manualZoom"], landmarks, FALSE, TRUE)

ManualSelectPlanet ==
    \E planetName \in Bodies :
        Finish(manualSelectPlanet(World(now, Null), planetName),
               [NoOp EXCEPT !.name = "manualSelectPlanet", !.arg = planetName],
               landmarks, FALSE, FALSE)

ManualFollowPlanet ==
    \E planetName \in Bodies :
        Finish(manualFollowPlanet(World(now, Null), planetName),
               [NoOp EXCEPT !.name = "manualFollowPlanet", !.arg = planetName],
               landmarks, FALSE, FALSE)

ManualReset ==
    Finish(manualReset(World(now, Null)), [NoOp EXCEPT !.name = "manualReset"],
           landmarks, FALSE, FALSE)

On ==
    \E event \in BusEvents, callback \in BusCallbacks :
        /\ Len(gc.callbacks[event]) < MaxSubscribers
        /\ Finish(on(World(now, Null), event, callback),
                  [NoOp EXCEPT !.name = "on", !.arg = <<event, callback>>],
                  landmarks, FALSE, TRUE)

Off ==
    \E event \in BusEvents, callback \in BusCallbacks \cup {"late"} :
        Finish(off(World(now, Null), event, callback),
               [NoOp EXCEPT !.name = "off", !.arg = <<event, callback>>],
               landmarks, FALSE, TRUE)

(***************************************************************************)
(* A session of every operation on gestures and the scene.                 *)
(***************************************************************************)
Next ==
    \/ ProcessHand
    \/ ProcessNull
    \/ OnHandLost
    \/ Update
    \/ ManualRotate
    \/ ManualZoom
    \/ ManualSelectPlanet
    \/ ManualFollowPlanet
    \/ ManualReset

Spec == Init /\ [][Next]_vars

(***************************************************************************)
(* Fist holds: fist frames and frames of another gesture, long enough for  *)
(* a hold to pass through the follow window, with the selection, follow    *)
(* and reset entry points and the loss of the hand.                        *)
(***************************************************************************)
FollowFrame == ProcessHandOf({FistHand, RotateHand}, {Null}, FollowSteps, MaxTimeFollow)

NextFollow ==
    \/ FollowFrame
    \/ OnHandLost
    \/ ManualSelectPlanet
    \/ ManualFollowPlanet
    \/ ManualReset

SpecFollow == Init /\ [][NextFollow]_vars

(***************************************************************************)
(* Dwelling: pointing frames and frames of another gesture, long enough    *)
(* for a hover to pass the dwell time, with the selection and reset entry  *)
(* points and the loss of the hand.                                        *)
(***************************************************************************)
DwellFrame ==
    ProcessHandOf({PointHand, RotateHand}, Bodies \cup {Null}, DwellSteps, MaxTimeDwell)

NextDwell ==
    \/ DwellFrame
    \/ OnHandLost
    \/ ManualSelectPlanet
    \/ ManualReset

SpecDwell == Init /\ [][NextDwell]_vars

(***************************************************************************)
(* Palm holds: palm frames and frames of another gesture, long enough for  *)
(* a hold to pass through the reset window, with the selection, follow and *)
(* reset entry points and the loss of the hand.                            *)
(***************************************************************************)
ResetFrame == ProcessHandOf({PalmHand, RotateHand}, {Null}, ResetSteps, MaxTimeReset)

NextReset ==
    \/ ResetFrame
    \/ OnHandLost
    \/ ManualSelectPlanet
    \/ ManualFollowPlanet
    \/ ManualReset

SpecReset == Init /\ [][NextReset]_vars

(***************************************************************************)
(* Camera gestures: rotate hands that move and pinches that open and       *)
(* close, with null frames, render ticks and the loss of the hand.         *)
(***************************************************************************)
CameraFrame == ProcessHandOf(CameraFrames, {Null}, Steps, MaxTimeCamera)

NextCamera ==
    \/ CameraFrame
    \/ ProcessNull
    \/ OnHandLost
    \/ Update

SpecCamera == Init /\ [][NextCamera]_vars

(***************************************************************************)
(* Selections by dwell: frames of every gesture far enough apart for       *)
(* dwells, fist holds and palm holds to fire, and long enough for a point  *)
(* session after a dwell, with null frames, render ticks, the loss of the  *)
(* hand and the reset entry point.                                         *)
(***************************************************************************)
PersistFrame == ProcessHandOf(CoreFrames, {"earth", Null}, PersistSteps, MaxTimePersist)

NextPersist ==
    \/ PersistFrame
    \/ ProcessNull
    \/ OnHandLost
    \/ Update
    \/ ManualReset

SpecPersist == Init /\ [][NextPersist]_vars

(***************************************************************************)
(* Fist holds at a low frame rate: fist frames and frames of another       *)
(* gesture 100 or 250 ms apart, with the selection entry point and the     *)
(* loss of the hand.                                                       *)
(***************************************************************************)
SparseFrame == ProcessHandOf({FistHand, RotateHand}, {Null}, SparseSteps, MaxTimeSparse)

NextSparse ==
    \/ SparseFrame
    \/ OnHandLost
    \/ ManualSelectPlanet

SpecSparse == Init /\ [][NextSparse]_vars

(***************************************************************************)
(* The event bus: callbacks are subscribed and unsubscribed, and the       *)
(* follow and reset entry points emit to them.  An entry point is entered  *)
(* while no event has more subscribers than on gives it from outside.      *)
(***************************************************************************)
BusRoom == \A event \in EventNames : Len(gc.callbacks[event]) <= MaxSubscribers

BusFollow == BusRoom /\ ManualFollowPlanet

BusReset == BusRoom /\ ManualReset

NextBus ==
    \/ On
    \/ Off
    \/ BusFollow
    \/ BusReset

SpecBus == Init /\ [][NextBus]_vars

(***************************************************************************)
(* Holds the loss of the hand interrupts: fist and palm frames far enough  *)
(* apart for a hold to fire on its second or third frame, with the loss of *)
(* the hand and the selection, follow and reset entry points.              *)
(***************************************************************************)
LossFrame == ProcessHandOf({FistHand, PalmHand}, {Null}, PersistSteps, MaxTimeLoss)

NextLoss ==
    \/ LossFrame
    \/ OnHandLost
    \/ ManualSelectPlanet
    \/ ManualFollowPlanet
    \/ ManualReset

SpecLoss == Init /\ [][NextLoss]_vars

(***************************************************************************)
(* Pinches while the camera moves: pinches and fists, with render ticks    *)
(* that move the camera radius towards its target, null frames, the loss   *)
(* of the hand and the reset entry point.                                  *)
(***************************************************************************)
PinchFrames == {PinchHand, Hand({}, "short", 30, 0), FistHand}

PinchFrame == ProcessHandOf(PinchFrames, {Null}, Steps, MaxTimePinch)

NextPinch ==
    \/ PinchFrame
    \/ Animate
    \/ ProcessNull
    \/ OnHandLost
    \/ ManualReset

SpecPinch == Init /\ [][NextPinch]_vars

(***************************************************************************)
(* The panels: keys and toolbar clicks, on a page whose panels and toolbar *)
(* buttons start with any classes.                                         *)
(***************************************************************************)
InitPanels ==
    /\ InitMachine({NoLandmarks})
    /\ \E c, s, h, b \in BOOLEAN :
           ui = [NewUIController EXCEPT !.hidden.controlsGuide = c,
                                        !.hidden.settingsPanel = s,
                                        !.active.btnHelp = h,
                                        !.active.btnSettings = b]

NextPanels ==
    \/ HandleKeyboard
    \/ Click

SpecPanels == InitPanels /\ [][NextPanels]_vars

(***************************************************************************)
(* The tracker drives the controller: detection results with a hand and    *)
(* without one.                                                            *)
(***************************************************************************)
NextTracker == OnResults

SpecTracker == Init /\ [][NextTracker]_vars

(***************************************************************************)
(* The classifier on its own: a hand is drawn, and processed once.         *)
(***************************************************************************)
InitClassify == InitWith(AllFrames)

Classify ==
    /\ op.name = "new"
    /\ \E dt \in Steps : Frame_processHand(landmarks, dt, Null)

NextClassify == Classify

SpecClassify == InitClassify /\ [][NextClassify]_vars

(***************************************************************************)
(* Properties.                                                             *)
(***************************************************************************)
\* The last operation processed a frame.
Processed == op.name = "processHand"

\* The thumb-tip/index-tip distance of the frame in hand.
PinchDistanceOf(lm) == distance(lm[LANDMARKS.THUMB_TIP], lm[LANDMARKS.INDEX_TIP])

\* The fingers of the four that are extended in a frame.
ExtendedOf(lm) == {f \in Fingers : isFingerExtended(lm, f)}

\* The events of an operation other than the gesture event.
NonGesture(out) == SelectSeq(out, LAMBDA e : e.event # "gesture")

Ev(event, data) == [event |-> event, data |-> data]

Cmd(fn, args) == [fn |-> fn, args |-> args]

InFistWindow(d) == d > 500 /\ d < 700

\* C1: during one fist hold with one planet selected throughout, once a
\* frame has fallen inside the (500,700) ms window the follow state is the one
\* a single toggle of the state at the start of the hold gives, and exactly
\* one planetFollowing event has been emitted, however many frames fell
\* inside the window.
C1_FollowToggleOneShot ==
    (fistHold.active /\ fistHold.inWindow >= 1 /\ gc.selectedPlanet # Null)
        => /\ fistHold.events = 1
           /\ gc.followingPlanet =
                  IF fistHold.following0 = gc.selectedPlanet
                  THEN Null ELSE gc.selectedPlanet

\* C2: following is null or an id that selected has held at or before this
\* point, whatever operations ran.
C2_FollowingWasSelected ==
    gc.followingPlanet = Null \/ gc.followingPlanet \in everSelected

\* C3: a point frame over a hit target emits no planetSelected while the hover
\* duration is at most 1500 ms (or the target is the selected one, or nothing
\* is hit); on a frame whose hover duration exceeds 1500 ms over a target not
\* yet selected it emits exactly one planetSelected(id), selected becomes id,
\* and select(id) and focus-on(id) are requested.
C3_DwellThreshold ==
    [][ (op'.name = "processHand" /\ op'.gesture = "point")
        => LET p == op'.hit
           IN  IF p # Null /\ gc'.hoverDuration > 1500 /\ gc.selectedPlanet # p
               THEN /\ EventsOf(emitted', "planetSelected") = <<Ev("planetSelected", p)>>
                    /\ gc'.selectedPlanet = p
                    /\ CallsOf(called', "selectPlanet") = <<Cmd("selectPlanet", <<p>>)>>
                    /\ CallsOf(called', "focusOnPlanet") = <<Cmd("focusOnPlanet", <<p>>)>>
               ELSE /\ EventsOf(emitted', "planetSelected") = <<>>
                    /\ gc'.selectedPlanet = gc.selectedPlanet
                    /\ CallsOf(called', "selectPlanet") = <<>>
                    /\ CallsOf(called', "focusOnPlanet") = <<>> ]_vars

\* A dwell has just committed: the hover had lasted more than 1500 ms.
C3_Witness ==
    /\ Processed /\ op.gesture = "point" /\ op.hit # Null
    /\ gc.hoverDuration > 1500
    /\ gc.selectedPlanet = op.hit
    /\ emitted = <<Ev("planetSelected", op.hit)>>

\* C4: after a dwell has emitted planetSelected(id), no dwell emits
\* planetSelected(id) again before the hover target has changed.
C4_DwellNoRefire == dwell.fired # Null => dwell.since # dwell.fired

\* C5: a processed frame emits a gesture event exactly when its label differs
\* from the current gesture held before the frame, and then exactly one,
\* carrying the new label.
C5_GestureEvent ==
    [][ op'.name = "processHand"
        => EventsOf(emitted', "gesture") =
               IF op'.gesture # gc.currentGesture
               THEN <<Ev("gesture", op'.gesture)>> ELSE <<>> ]_vars

\* A frame repeated the label of the frame before it, with no gesture event.
C5_Witness ==
    /\ Processed
    /\ gc.gestureDuration > 0
    /\ gc.currentGesture = op.gesture
    /\ EventsOf(emitted, "gesture") = <<>>

\* C6: a frame whose thumb-tip/index-tip distance is below 0.08 is classified
\* pinch, whatever the five finger states.
C6_PinchTopPriority ==
    (Processed /\ PinchDistanceOf(landmarks) < 80) => gc.currentGesture = "pinch"

\* A pinch with every finger closed; and the hands drawn hold all 32
\* combinations of finger states below the pinch distance.
C6_Witness ==
    /\ Processed /\ PinchDistanceOf(landmarks) < 80
    /\ ExtendedOf(landmarks) = {} /\ ~isThumbExtended(landmarks)
    /\ gc.currentGesture = "pinch"
    /\ \A e \in SUBSET Fingers, t \in BOOLEAN :
           \E lm \in AllFrames : /\ PinchDistanceOf(lm) < 80
                                 /\ ExtendedOf(lm) = e
                                 /\ isThumbExtended(lm) = t

\* C7: a frame with pinch distance at least 0.08 and none of the five
\* fingers extended is classified fist.
C7_Fist ==
    (Processed /\ PinchDistanceOf(landmarks) >= 80
       /\ ExtendedOf(landmarks) = {} /\ ~isThumbExtended(landmarks))
        => gc.currentGesture = "fist"

\* A fist at exactly the pinch distance 0.08.
C7_Witness ==
    /\ Processed /\ PinchDistanceOf(landmarks) = 80
    /\ ExtendedOf(landmarks) = {} /\ ~isThumbExtended(landmarks)
    /\ gc.currentGesture = "fist"

\* C8: a frame with pinch distance at least 0.08, the index extended and
\* middle, ring and pinky not extended is classified point, thumb extended
\* or not.
C8_Point ==
    (Processed /\ PinchDistanceOf(landmarks) >= 80 /\ ExtendedOf(landmarks) = {"index"})
        => gc.currentGesture = "point"

\* A point with the thumb extended.
C8_Witness ==
    /\ Processed /\ PinchDistanceOf(landmarks) >= 80
    /\ ExtendedOf(landmarks) = {"index"} /\ isThumbExtended(landmarks)
    /\ gc.currentGesture = "point"

\* C9: with pinch distance at least 0.08, a frame is classified palm exactly
\* when all five fingers are extended, and rotate when it is neither all
\* closed, nor index-only among the four fingers, nor all extended.
C9_PalmAndRotate ==
    (Processed /\ PinchDistanceOf(landmarks) >= 80)
        => LET e == ExtendedOf(landmarks)
               t == isThumbExtended(landmarks)
           IN  /\ gc.currentGesture = "palm" <=> (e = Fingers /\ t)
               /\ (~(e = {} /\ ~t) /\ e # {"index"} /\ ~(e = Fingers /\ t))
                      => gc.currentGesture = "rotate"

\* A rotate from the thumb alone; and the hands drawn hold an open palm
\* and a hand of four fingers without the thumb.
C9_Witness ==
    /\ Processed /\ PinchDistanceOf(landmarks) >= 80
    /\ ExtendedOf(landmarks) = {} /\ isThumbExtended(landmarks)
    /\ gc.currentGesture = "rotate"
    /\ \E lm \in AllFrames : /\ PinchDistanceOf(lm) >= 80
                             /\ ExtendedOf(lm) = Fingers /\ isThumbExtended(lm)
    /\ \E lm \in AllFrames : /\ PinchDistanceOf(lm) >= 80
                             /\ ExtendedOf(lm) = Fingers /\ ~isThumbExtended(lm)

\* C10: on a fist frame whose gesture duration d has 500 < d < 700, with a
\* planet selected: if following equals it, following becomes null,
\* stop-following is requested and planetFollowing(null) is emitted; otherwise
\* following becomes the selected planet, follow(selected) is requested and
\* planetFollowing(selected) is emitted.  With nothing selected, or d <= 500,
\* or d >= 700, the fist frame changes neither selected nor following, calls
\* nothing and emits nothing but the gesture event of its transition.
C10_FollowToggleStep ==
    [][ (op'.name = "processHand" /\ op'.gesture = "fist")
        => LET sel == gc.selectedPlanet
               fol == gc.followingPlanet
           IN  /\ gc'.selectedPlanet = sel
               /\ IF InFistWindow(gc'.gestureDuration) /\ sel # Null
                  THEN IF fol = sel
                       THEN /\ gc'.followingPlanet = Null
                            /\ called' = <<Cmd("stopFollowing", <<>>)>>
                            /\ NonGesture(emitted') = <<Ev("planetFollowing", Null)>>
                       ELSE /\ gc'.followingPlanet = sel
                            /\ called' = <<Cmd("followPlanet", <<sel>>)>>
                            /\ NonGesture(emitted') = <<Ev("planetFollowing", sel)>>
                  ELSE /\ gc'.followingPlanet = fol
                       /\ called' = <<>>
                       /\ NonGesture(emitted') = <<>> ]_vars

\* A fist frame inside the window has set following to the selected planet.
C10_Witness ==
    /\ Processed /\ op.gesture = "fist"
    /\ InFistWindow(gc.gestureDuration)
    /\ gc.selectedPlanet # Null
    /\ gc.followingPlanet = gc.selectedPlanet
    /\ called = <<Cmd("followPlanet", <<gc.selectedPlanet>>)>>
    /\ emitted = <<Ev("planetFollowing", gc.selectedPlanet)>>

InPalmWindow(d) == d > 1000 /\ d < 1200

\* C11: on a palm frame whose gesture duration d has 1000 < d < 1200, selected
\* and following become null, reset-view is requested and cameraReset and
\* then planetFollowing(null) are emitted, in that order.  On a palm frame
\* with d <= 1000 or d >= 1200 selected and following are unchanged, nothing
\* is requested and nothing is emitted but the gesture event of the frame's
\* transition.
C11_ViewResetStep ==
    [][ (op'.name = "processHand" /\ op'.gesture = "palm")
        => IF InPalmWindow(gc'.gestureDuration)
           THEN /\ gc'.selectedPlanet = Null
                /\ gc'.followingPlanet = Null
                /\ called' = <<Cmd("resetView", <<>>)>>
                /\ emitted' = <<Ev("cameraReset", Null), Ev("planetFollowing", Null)>>
           ELSE /\ gc'.selectedPlanet = gc.selectedPlanet
                /\ gc'.followingPlanet = gc.followingPlanet
                /\ called' = <<>>
                /\ NonGesture(emitted') = <<>> ]_vars

\* A palm frame inside the window has reset the view, after a selection.
C11_Witness ==
    /\ Processed /\ op.gesture = "palm"
    /\ InPalmWindow(gc.gestureDuration)
    /\ everSelected # {}
    /\ gc.selectedPlanet = Null /\ gc.followingPlanet = Null
    /\ called = <<Cmd("resetView", <<>>)>>
    /\ emitted = <<Ev("cameraReset", Null), Ev("planetFollowing", Null)>>

\* C18: a palm frame that fires the reset leaves the selected and following
\* planet, the scene, the scene calls and the events that manualReset()
\* gives from the state before the frame.
C18_ManualResetAsPalm ==
    [][ (op'.name = "processHand" /\ op'.gesture = "palm"
           /\ InPalmWindow(gc'.gestureDuration))
        => LET m == manualReset(World(now, Null))
           IN  /\ gc'.selectedPlanet = m.gc.selectedPlanet
               /\ gc'.followingPlanet = m.gc.followingPlanet
               /\ ss' = m.ss
               /\ called' = m.cmds
               /\ emitted' = m.out ]_vars

\* A palm reset has fired after both bodies had been selected, and has left
\* the scene following nothing at the default radius.
C18_Witness ==
    /\ Processed /\ op.gesture = "palm"
    /\ InPalmWindow(gc.gestureDuration)
    /\ everSelected = Bodies
    /\ ss.followingPlanet = Null
    /\ ss.cameraOrbit.targetRadius = DEFAULT_RADIUS
    /\ called = <<Cmd("resetView", <<>>)>>

\* C12: onHandLost() sets the current gesture to none and pinch-active to
\* false; if a hover target is set it requests highlight(null) and clears the
\* target, and otherwise requests nothing; it leaves selected and following
\* as they are and emits no event.
C12_OnHandLost ==
    [][ op'.name = "onHandLost"
        => /\ gc'.currentGesture = Null
           /\ gc'.isPinching = FALSE
           /\ gc'.hoveredPlanet = Null
           /\ called' = IF gc.hoveredPlanet # Null
                        THEN <<Cmd("highlightPlanet", <<Null>>)>> ELSE <<>>
           /\ gc'.selectedPlanet = gc.selectedPlanet
           /\ gc'.followingPlanet = gc.followingPlanet
           /\ emitted' = <<>> ]_vars

\* The hand was lost over a hovered planet, with a planet selected and
\* followed: the highlight is cleared, selection and follow stay.
C12_Witness ==
    /\ op.name = "onHandLost"
    /\ called = <<Cmd("highlightPlanet", <<Null>>)>>
    /\ gc.selectedPlanet # Null /\ gc.followingPlanet # Null
    /\ gc.currentGesture = Null /\ emitted = <<>>

\* C13: processing a null frame changes no field of the controller and none
\* of the scene, emits no event and calls no scene method.
C13_NullFrameNoOp ==
    [][ op'.name = "processNull"
        => /\ gc' = gc
           /\ ss' = ss
           /\ emitted' = <<>>
           /\ called' = <<>> ]_vars

\* A null frame arrived in the middle of a pinch, with a planet selected.
C13_Witness ==
    /\ op.name = "processNull"
    /\ gc.currentGesture = "pinch" /\ gc.isPinching
    /\ gc.selectedPlanet # Null
    /\ emitted = <<>> /\ called = <<>>

\* C19: update() changes no field of the controller and none of the scene,
\* emits no event and calls no scene method, so the state the next frame is
\* processed from is the state the last operation left.
C19_UpdateNoOp ==
    [][ op'.name = "update"
        => /\ gc' = gc
           /\ ss' = ss
           /\ emitted' = <<>>
           /\ called' = <<>> ]_vars

\* A render tick between two frames of a point hold over a hovered planet.
C19_Witness ==
    /\ op.name = "update"
    /\ gc.currentGesture = "point" /\ gc.hoveredPlanet # Null
    /\ gc.gestureDuration > 0
    /\ emitted = <<>> /\ called = <<>>

\* C15: every rotate frame issues exactly one command, an adjust-rotation;
\* when a frame was processed before it, with deltaTheta =
\* -(palm.x - previous palm.x) * 3 and deltaPhi = (palm.y - previous palm.y)
\* * 3, the previous palm being the palm center of that frame.
C15_RotateMapping ==
    [][ (op'.name = "processHand" /\ op'.gesture = "rotate")
        => /\ Len(called') = 1
           /\ called'[1].fn = "adjustRotation"
           /\ lastFrame # NoLandmarks
                  => LET palm     == getPalmCenter(landmarks')
                         previous == getPalmCenter(lastFrame)
                     IN  called'[1].args = <<-((palm.x - previous.x) * 3),
                                             (palm.y - previous.y) * 3>> ]_vars

\* The hand moved +0.05 across and 0 up between two frames, and the rotate
\* frame issued (-0.15, 0).
C15_Witness ==
    /\ Processed /\ op.gesture = "rotate"
    /\ landmarks = Moved(RotateHand, 50, 0)
    /\ called = <<Cmd("adjustRotation", <<-150, 0>>)>>

CallsIn(i) == SelectSeq(delivered, LAMBDA c : c.emission = i)

\* C14: each emission of an operation calls every callback subscribed to the
\* event when the emission starts, each once and in subscription order, with
\* the event's data, and no other (so not one subscribed during it); and the
\* calls of one emission are over before the next emission starts.
C14_EventDelivery ==
    /\ \A i \in 1..Len(emitted) :
           /\ Len(CallsIn(i)) = Len(subscribedAt[i])
           /\ \A k \in 1..Len(CallsIn(i)) :
                  /\ CallsIn(i)[k].callback = subscribedAt[i][k]
                  /\ CallsIn(i)[k].event = emitted[i].event
                  /\ CallsIn(i)[k].data = emitted[i].data
    /\ \A j, k \in 1..Len(delivered) :
           j < k => delivered[j].emission <= delivered[k].emission

\* The step is a dwell commit: a point frame over a target not yet selected,
\* hovered for more than 1500 ms.
DwellCommit ==
    /\ op'.name = "processHand" /\ op'.gesture = "point"
    /\ op'.hit # Null /\ op'.hit # gc.selectedPlanet
    /\ gc'.hoverDuration > 1500

\* The step is a palm frame inside the reset window.
PalmReset ==
    /\ op'.name = "processHand" /\ op'.gesture = "palm"
    /\ InPalmWindow(gc'.gestureDuration)

\* C17: selected changes only in a dwell commit, a direct select-by-id, a
\* palm frame inside the reset window or a manual reset.  Every other step
\* (rotate, pinch and fist frames, point frames that do not commit, palm
\* frames outside the window, null frames, onHandLost, update) leaves it.
C17_SelectionPersists ==
    [][ ~(\/ DwellCommit
          \/ PalmReset
          \/ op'.name = "manualSelectPlanet"
          \/ op'.name = "manualReset")
        => gc'.selectedPlanet = gc.selectedPlanet ]_vars

\* A dwell selected earth in one point session, and a new point session on
\* the same target begins with earth still selected.
C17_Witness ==
    /\ Processed /\ op.gesture = "point" /\ op.hit = "earth"
    /\ gc.gestureDuration = 0 /\ gc.previousGesture \notin {Null, "point"}
    /\ dwell.since = "earth"
    /\ gc.selectedPlanet = "earth"
    /\ emitted = <<Ev("gesture", "point")>>

\* C20: a point frame emits planetSelected(id) only when the frames processed
\* have been point frames on target id, one after the other, for more than
\* 1500 ms; time spent in another gesture does not count.
C20_DwellContinuous ==
    (Processed /\ op.gesture = "point"
       /\ EventsOf(emitted, "planetSelected") # <<>>)
        => /\ pointRun.target = op.hit
           /\ now - pointRun.start > 1500

\* C21: during one palm hold, however many of its frames fall inside the
\* (1000,1200) ms window, at most one cameraReset event is emitted and
\* reset-view is requested at most once.
C21_ResetOneShot ==
    palmHold.active => (palmHold.events <= 1 /\ palmHold.calls <= 1)

\* C29: when a fist hold, followed from its first frame with a planet
\* selected, has lasted more than 700 ms, the follow toggle has fired at
\* least once during it.
C29_HeldFistToggles ==
    (/\ Processed /\ op.gesture = "fist"
     /\ fistHold.active /\ fistHold.fromStart
     /\ gc.selectedPlanet # Null
     /\ gc.gestureDuration > 700)
        => fistHold.events >= 1

\* C22: after every processed frame, duration = now - startedAt.  If the
\* frame's label differs from the current gesture held before it, startedAt
\* becomes now, the duration is 0, previous takes the old current, and
\* neither window-gated action fires; otherwise startedAt and previous are
\* unchanged.
C22_GestureTiming ==
    [][ op'.name = "processHand"
        => /\ gc'.gestureDuration = now' - gc'.gestureStartTime
           /\ IF op'.gesture # gc.currentGesture
              THEN /\ gc'.gestureStartTime = now'
                   /\ gc'.gestureDuration = 0
                   /\ gc'.previousGesture = gc.currentGesture
                   /\ EventsOf(emitted', "planetFollowing") = <<>>
                   /\ EventsOf(emitted', "cameraReset") = <<>>
              ELSE /\ gc'.gestureStartTime = gc.gestureStartTime
                   /\ gc'.previousGesture = gc.previousGesture ]_vars

\* The first frame of a palm gesture that follows a fist, with a planet
\* selected: the duration is 0 and nothing but the gesture event is emitted.
C22_Witness ==
    /\ Processed /\ op.gesture = "palm"
    /\ gc.previousGesture = "fist"
    /\ gc.gestureStartTime = now /\ gc.gestureDuration = 0
    /\ gc.selectedPlanet # Null
    /\ emitted = <<Ev("gesture", "palm")>>

\* C27: a processed frame issues one adjust-rotation when its label is
\* rotate and none otherwise, and one adjust-zoom when its label is pinch and
\* none otherwise; so fist, palm and point frames issue neither.
C27_CameraCommandsGated ==
    [][ op'.name = "processHand"
        => /\ Len(CallsOf(called', "adjustRotation")) =
                  (IF op'.gesture = "rotate" THEN 1 ELSE 0)
           /\ Len(CallsOf(called', "adjustZoom")) =
                  (IF op'.gesture = "pinch" THEN 1 ELSE 0) ]_vars

\* A point frame that commits a dwell: it selects and focuses, and issues no
\* camera command.
C27_Witness ==
    /\ Processed /\ op.gesture = "point" /\ op.hit = "earth"
    /\ EventsOf(emitted, "planetSelected") # <<>>
    /\ CallsOf(called, "focusOnPlanet") # <<>>
    /\ CallsOf(called, "adjustRotation") = <<>>
    /\ CallsOf(called, "adjustZoom") = <<>>

Labels == {"rotate", "pinch", "fist", "point", "palm"}

\* C23: the current gesture is none at construction; a processed frame leaves
\* it one of the five labels, onHandLost() leaves it none, and no other
\* operation changes it.  So it is always none or one of the five labels,
\* and none only before the first frame or after onHandLost() with no frame
\* since.
C23_LabelDomain ==
    /\ gc.currentGesture = Null
    /\ [][ /\ gc'.currentGesture \in Labels \cup {Null}
           /\ op'.name = "processHand" => gc'.currentGesture \in Labels
           /\ op'.name = "onHandLost" => gc'.currentGesture = Null
           /\ op'.name \notin {"processHand", "onHandLost"}
                  => gc'.currentGesture = gc.currentGesture ]_vars

\* A render tick after the hand was lost: frames have been processed, and
\* the current gesture is none.
C23_Witness ==
    /\ op.name = "update"
    /\ lastFrame # NoLandmarks
    /\ gc.previousGesture # Null
    /\ gc.currentGesture = Null

\* C28: every processed frame stores its thumb-index distance as the current
\* pinch distance and moves the old current distance to previous, whatever
\* its label; so the first pinch frame after a frame of another gesture issues
\* the zoom delta measured against that frame's distance.
C28_PinchHistory ==
    [][ op'.name = "processHand"
        => /\ gc'.pinchDistance = PinchDistanceOf(landmarks')
           /\ gc'.previousPinchDistance = gc.pinchDistance
           /\ (op'.gesture = "pinch" /\ gc.currentGesture \notin {"pinch", Null}
                 /\ lastFrame # NoLandmarks)
                  => called' = <<Cmd("adjustZoom",
                                     <<(-(PinchDistanceOf(landmarks')
                                          - PinchDistanceOf(lastFrame)) * 100) \div 10>>)>> ]_vars

\* The first pinch frame (0.05) after a fist frame (0.2): the zoom delta is
\* 0.15 * 100.
C28_Witness ==
    /\ Processed /\ op.gesture = "pinch"
    /\ gc.previousGesture = "fist" /\ gc.gestureDuration = 0
    /\ gc.previousPinchDistance = 200 /\ gc.pinchDistance = 50
    /\ called = <<Cmd("adjustZoom", <<1500>>)>>

\* C30: after processHand or onHandLost, pinch-active is true exactly when
\* the current gesture is pinch.
C30_PinchFlag ==
    op.name \in {"processHand", "onHandLost"}
        => (gc.isPinching <=> gc.currentGesture = "pinch")

\* The hand was lost in the middle of a pinch: the flag is down.
C30_Witness ==
    /\ op.name = "onHandLost"
    /\ lastFrame # NoLandmarks /\ PinchDistanceOf(lastFrame) < 80
    /\ gc.previousGesture # "pinch"
    /\ ~gc.isPinching /\ gc.currentGesture = Null

\* C24: on a point frame whose hit-test returns an id other than the hover
\* target, the hover target becomes the id, the hover start time becomes now,
\* the hover duration is 0, highlight(id) is requested and nothing is
\* selected; when it returns the hover target, the hover start is kept and,
\* short of a dwell commit, nothing is requested; when it returns none and a hover target is set,
\* highlight(null) is requested and the hover target becomes null.
C24_HoverTracking ==
    [][ (op'.name = "processHand" /\ op'.gesture = "point")
        => LET p == op'.hit
           IN  IF p # Null /\ p # gc.hoveredPlanet
               THEN /\ gc'.hoveredPlanet = p
                    /\ gc'.hoverStartTime = now'
                    /\ gc'.hoverDuration = 0
                    /\ called' = <<Cmd("highlightPlanet", <<p>>)>>
                    /\ EventsOf(emitted', "planetSelected") = <<>>
               ELSE IF p # Null
               THEN /\ gc'.hoveredPlanet = p
                    /\ gc'.hoverStartTime = gc.hoverStartTime
                    /\ gc'.hoverDuration = now' - gc.hoverStartTime
                    /\ EventsOf(emitted', "planetSelected") = <<>> => called' = <<>>
               ELSE IF gc.hoveredPlanet # Null
               THEN /\ gc'.hoveredPlanet = Null
                    /\ called' = <<Cmd("highlightPlanet", <<Null>>)>>
               ELSE /\ gc'.hoveredPlanet = Null
                    /\ called' = <<>> ]_vars

\* The pointing has gone on for a second or more and the finger has just
\* come onto earth from another target or from none: the hover starts at 0.
C24_Witness ==
    /\ Processed /\ op.gesture = "point" /\ op.hit = "earth"
    /\ gc.gestureDuration >= 1000
    /\ gc.hoveredPlanet = "earth"
    /\ gc.hoverStartTime = now /\ gc.hoverDuration = 0
    /\ gc.selectedPlanet = Null
    /\ called = <<Cmd("highlightPlanet", <<"earth">>)>>

\* C25: a hover target is set only while the current gesture is point.
C25_HoverConfined == gc.hoveredPlanet # Null => gc.currentGesture = "point"

\* How many times callback c occurs among the subscribers, or the calls.
Subscriptions(i, c) == Cardinality({k \in 1..Len(subscribedAt[i]) : subscribedAt[i][k] = c})
CallsTo(i, c) == Cardinality({k \in 1..Len(CallsIn(i)) : CallsIn(i)[k].callback = c})

\* C26: in an emission during which a callback unsubscribes itself, every
\* other callback subscribed to the event when the emission started is still
\* called, once for each of its subscriptions.
C26_UnsubscribeDuringEmit ==
    \A i \in 1..Len(emitted) :
        (Subscriptions(i, "once") > 0 /\ CallsTo(i, "once") > 0)
            => \A c \in DOMAIN Callbacks \ {"once"} :
                   CallsTo(i, c) = Subscriptions(i, c)

\* C31: the first frame processed after onHandLost() (and the first frame of
\* all) emits a gesture event with its label and starts at duration 0, even
\* when the label is the one held before the loss; and a fist frame toggles
\* follow, or a palm frame resets, only when frames of that label have been
\* processed one after the other, with no loss of the hand between them, for
\* more than 500 ms, respectively 1000 ms.
C31_LossRestartsHold ==
    [][ op'.name = "processHand"
        => /\ gc.currentGesture = Null
                  => /\ EventsOf(emitted', "gesture") = <<Ev("gesture", op'.gesture)>>
                     /\ gc'.gestureDuration = 0
                     /\ gc'.gestureStartTime = now'
                     /\ EventsOf(emitted', "planetFollowing") = <<>>
                     /\ EventsOf(emitted', "cameraReset") = <<>>
           /\ held'.label = op'.gesture
           /\ gc'.gestureStartTime = held'.start
           /\ EventsOf(emitted', "planetFollowing") # <<>>
                  => now' - held'.start > 500
           /\ EventsOf(emitted', "cameraReset") # <<>>
                  => now' - held'.start > 1000 ]_vars

\* A fist was held, the hand was lost, and the fist held again has just
\* toggled follow, more than 500 ms after it was taken up again.
C31_Witness ==
    /\ Processed /\ op.gesture = "fist"
    /\ fistHold.resumed /\ now - held.start > 500
    /\ gc.followingPlanet = "earth"
    /\ emitted = <<Ev("planetFollowing", "earth")>>

\* C33: the camera's target zoom radius lies within [20, 200] after every
\* operation.
C33_ZoomClamped ==
    /\ ss.cameraOrbit.targetRadius >= MIN_RADIUS
    /\ ss.cameraOrbit.targetRadius <= MAX_RADIUS

\* C32: after every operation the controller's followingPlanet equals the
\* scene's followingPlanet.
C32_FollowAgreement == gc.followingPlanet = ss.followingPlanet

\* A fist hold has just toggled follow off: the controller and the scene
\* both followed earth, and now both follow nothing.
C32_Witness ==
    /\ Processed /\ op.gesture = "fist"
    /\ emitted = <<Ev("planetFollowing", Null)>>
    /\ CallsOf(called, "stopFollowing") # <<>>
    /\ gc.selectedPlanet = "earth"
    /\ gc.followingPlanet = Null /\ ss.followingPlanet = Null

\* C36: basePinchDistance changes only on a frame labelled pinch that finds
\* the pinch flag down, and then takes the scene's camera radius; later
\* frames of the same pinch, frames of another label and every other
\* operation leave it as it is.
C36_BaseOnRisingEdge ==
    [][ IF op'.name = "processHand" /\ op'.gesture = "pinch" /\ ~gc.isPinching
        THEN gc'.basePinchDistance = ss.cameraOrbit.radius
        ELSE gc'.basePinchDistance = gc.basePinchDistance ]_vars

\* The second frame of a pinch taken up after the camera had moved, with the
\* camera moved again since: the base is the radius the pinch began at.
C36_Witness ==
    /\ Processed /\ op.gesture = "pinch"
    /\ gc.gestureDuration > 0
    /\ gc.basePinchDistance # DEFAULT_RADIUS
    /\ gc.basePinchDistance # ss.cameraOrbit.radius

\* C34: a result with a hand makes the tracker emit handDetected, and
\* nothing else, with landmarks that are not null, which processHand then
\* processes as a frame; a result without a hand makes it emit handLost, and
\* the controller run onHandLost, exactly when the result before it had a
\* hand, and nothing otherwise.  So handLost comes once per transition from
\* hand to no hand, never before the first handDetected and never twice
\* without a handDetected between.
C34_LostOnEdge ==
    [][ tracker'.n # tracker.n
        => IF tracker'.result = "hand"
           THEN /\ tracker'.out = <<"handDetected">>
                /\ op'.name = "processHand"
                /\ landmarks' # NoLandmarks
                /\ landmarks' = ht'.smoothedLandmarks
                /\ lastFrame' = landmarks'
           ELSE IF tracker.result = "hand"
           THEN /\ tracker'.out = <<"handLost">>
                /\ op'.name = "onHandLost"
                /\ gc'.currentGesture = Null
           ELSE /\ tracker'.out = <<>>
                /\ op'.name = "onResults"
                /\ gc' = gc ]_vars

\* The second result in a row without a hand, after results with one: the
\* loss was signalled on the first, and nothing is emitted on this one.
C34_Witness ==
    /\ tracker.result = "none" /\ tracker.prev = "none"
    /\ ht.lastLandmarks # NoLandmarks
    /\ ~ht.handDetected
    /\ gc.currentGesture = Null /\ gc.previousGesture # Null
    /\ tracker.out = <<>>

\* The step runs togglePanel or closeAllPanels.
PanelStep ==
    \/ op'.name = "click" /\ op'.arg \in {"btnHelp", "btnSettings"}
    \/ /\ op'.name = "handleKeyboard"
       /\ \/ op'.arg[1] \in {"Escape", "h", "H"}
          \/ op'.arg[1] \in {"s", "S"} /\ ~op'.arg[2]

\* C35: the controls panel and the settings panel are never both open: the
\* two flags are never both set, and after togglePanel or closeAllPanels
\* each panel is shown, and its button active, exactly when its flag is set.
C35_PanelsExclusive ==
    /\ ~(ui.isPanelOpen.controls /\ ui.isPanelOpen.settings)
    /\ [][ /\ ~(ui'.isPanelOpen.controls /\ ui'.isPanelOpen.settings)
           /\ PanelStep
                  => /\ ui'.hidden.controlsGuide = ~ui'.isPanelOpen.controls
                     /\ ui'.hidden.settingsPanel = ~ui'.isPanelOpen.settings
                     /\ ui'.active.btnHelp = ui'.isPanelOpen.controls
                     /\ ui'.active.btnSettings = ui'.isPanelOpen.settings
                     /\ ~(~ui'.hidden.controlsGuide /\ ~ui'.hidden.settingsPanel) ]_vars

\* The S key has opened the settings panel while a planet is selected and
\* its panel shown: the controls panel is closed.
C35_Witness ==
    /\ op.name = "handleKeyboard" /\ op.arg = <<"s", FALSE>>
    /\ ui.isPanelOpen.settings /\ ~ui.hidden.settingsPanel
    /\ ~ui.isPanelOpen.controls /\ ui.hidden.controlsGuide /\ ~ui.active.btnHelp
    /\ ui.isPanelOpen.planetInfo /\ gc.selectedPlanet = "earth"

=============================================================================
